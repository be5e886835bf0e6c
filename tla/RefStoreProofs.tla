--------------------------- MODULE RefStoreProofs ---------------------------
(***************************************************************************)
(* Proofs about RefStore for any names, ids and processes: its type        *)
(* invariant; that references hold only what was written to them, however  *)
(* processes collide, and are empty only where writers clashed; with at    *)
(* most one packer, that no reference that is there goes before a deletion *)
(* begins; and with at most one process that changes files, any number of  *)
(* readers, deaths and failed writes, that reads are atomic, deletions     *)
(* complete, and that the store implements the map of RefMap.              *)
(***************************************************************************)
EXTENDS RefStore, TLAPS

\* A process that is at work on one reference has its name.
NameInv ==
    \A p \in Proc :
        pc[p] \in {"wFill", "wRename", "unlinkRef", "dScan", "dOpen", "dLock", "dFill",
                   "dRename", "unlinkNew", "pPacked", "rPacked"}
        => name[p] \in Ref

TypeInv == TypeOK /\ NameInv

\* Files that are renamed, unlinked, created or written stay at paths.
LEMMA OutType ==
    ASSUME TypeInv, NEW p \in Proc, NEW from \in Path, NEW to \in Path,
           \/ Renamed(from, to) \/ Unlinked(from) \/ Opened(p, from) \/ Closed(p)
    PROVE  out' \in [Proc -> Path]
<1>1. Nowhere \in Path /\ out \in [Proc -> Path]
  BY DEF Path, TypeInv, TypeOK
<1> QED
  BY <1>1 DEF Renamed, Unlinked, Opened, Closed

LEMMA PathTypes ==
    /\ \A r \in Ref : LooseFile(r) \in Path /\ LockFile(r) \in Path
    /\ {PackedFile, PackLockFile, NewLockFile, Nowhere} \subseteq Path
BY DEF Path

\* Ending an operation keeps the local variables in their types.
LEMMA ReturnType ==
    ASSUME TypeInv, NEW p \in Proc, Return(p)
    PROVE  /\ pc' \in [Proc -> PC]
           /\ name' \in [Proc -> Ref \cup {NoRef}]
           /\ snap' \in [Proc -> Packed]
           /\ todo' \in [Proc -> SUBSET Ref]
           /\ prune' \in [Proc -> SUBSET Ref]
           /\ NameInv'
<1>1. EmptyPacked \in Packed
  BY DEF EmptyPacked, Packed
<1>2. pc' \in [Proc -> PC] /\ name' \in [Proc -> Ref \cup {NoRef}]
  BY DEF Return, GoTo, TypeInv, TypeOK, PC
<1>3. snap' \in [Proc -> Packed]
  BY <1>1 DEF Return, TypeInv, TypeOK
<1>4. todo' \in [Proc -> SUBSET Ref] /\ prune' \in [Proc -> SUBSET Ref]
  BY DEF Return, TypeInv, TypeOK
<1>5. NameInv'
  BY DEF Return, GoTo, TypeInv, TypeOK, NameInv
<1> QED
  BY <1>2, <1>3, <1>4, <1>5

\* Going on to another step that needs no name, or keeps the one there is.
LEMMA GoToType ==
    ASSUME TypeInv, NEW p \in Proc, NEW s \in PC, GoTo(p, s), name' = name,
           s \in {"idle", "pList", "pRef", "pFill", "pRename", "unlinkPack",
                  "pPrune"} \/ name[p] \in Ref
    PROVE  pc' \in [Proc -> PC] /\ NameInv'
BY DEF GoTo, TypeInv, TypeOK, NameInv

\* What readers have seen keeps its type when a step observes the store.
LEMMA ObserveType ==
    ASSUME TypeInv, loose' \in [Ref -> Content],
           packed' \in Packed, Observe,
           \A q \in Proc : pc[q] = "rPacked" => name'[q] = name[q]
    PROVE  saw' \in [Proc -> SUBSET Content]
<1>1. ASSUME NEW q \in Proc, pc[q] = "rPacked"
      PROVE  Resolved(name[q])' \in Content
  <2>1. name'[q] \in Ref
    BY <1>1 DEF TypeInv, NameInv
  <2> QED
    BY <2>1 DEF Resolved, Packed, Target, Content
<1> QED
  BY <1>1 DEF Observe, TypeInv, TypeOK

\* What pack_refs does with the loose file of r.
EntryRead(p, r) ==
    \/ loose[r] \in Target /\ PackEntry(p, r, loose[r]) /\ UNCHANGED <<pc, name>>
    \/ loose[r] = Empty /\ Return(p)
    \/ /\ loose[r] = NoTarget
       /\ name' = [name EXCEPT ![p] = r] /\ GoTo(p, "pPacked")
       /\ UNCHANGED <<snap, todo, prune>>

LEMMA ReadsEntry ==
    ASSUME TypeInv, NEW p \in Proc, PackReadLoose(p)
    PROVE  \E r \in todo[p] : EntryRead(p, r)
<1>1. PICK r \in todo[p] :
        CASE loose[r] \in Target -> PackEntry(p, r, loose[r]) /\ UNCHANGED <<pc, name>>
          [] loose[r] = Empty -> Return(p)
          [] loose[r] = NoTarget -> /\ name' = [name EXCEPT ![p] = r]
                                    /\ GoTo(p, "pPacked")
                                    /\ UNCHANGED <<snap, todo, prune>>
  BY DEF PackReadLoose
<1>2. r \in Ref /\ loose[r] \in Content
  BY DEF TypeInv, TypeOK
<1>3. CASE loose[r] \in Target
  <2>1. loose[r] # Empty /\ loose[r] # NoTarget
    BY <1>3, RefStoreAssumption DEF Target
  <2> QED
    BY <1>1, <1>3, <2>1 DEF EntryRead
<1>4. CASE loose[r] = Empty
  <2>1. loose[r] \notin Target /\ loose[r] # NoTarget
    BY <1>4, RefStoreAssumption DEF Target
  <2> QED
    BY <1>1, <1>4, <2>1 DEF EntryRead
<1>5. CASE loose[r] = NoTarget
  <2>1. loose[r] \notin Target /\ loose[r] # Empty
    BY <1>5, RefStoreAssumption DEF Target
  <2> QED
    BY <1>1, <1>5, <2>1 DEF EntryRead
<1> QED
  BY <1>2, <1>3, <1>4, <1>5 DEF Content

\* Every step keeps the type invariant.
LEMMA TypeStep == TypeInv /\ [Next]_vars => TypeInv'
<1> SUFFICES ASSUME TypeInv, [Next]_vars PROVE TypeInv'
  OBVIOUS
<1> USE RefStoreAssumption DEF files, locals, ghosts, Content
<1>1. ASSUME NEW p \in Proc, NEW r \in Ref, WriteLock(p, r)
      PROVE  TypeInv'
  <2>1. refLock' \in [Ref -> Content] /\ clashed' \subseteq Ref
    BY <1>1 DEF WriteLock, TypeInv, TypeOK
  <2>2. name' \in [Proc -> Ref \cup {NoRef}] /\ name'[p] \in Ref
    BY <1>1 DEF WriteLock, TypeInv, TypeOK
  <2>3. pc' \in [Proc -> PC]
    BY <1>1 DEF WriteLock, GoTo, TypeInv, TypeOK, PC
  <2>4. NameInv'
    BY <1>1, <2>2 DEF WriteLock, GoTo, TypeInv, TypeOK, NameInv
  <2>5. out' \in [Proc -> Path]
    BY <1>1, OutType, PathTypes DEF WriteLock, TypeInv, TypeOK
  <2> QED
    BY <1>1, <2>1, <2>2, <2>3, <2>4, <2>5 DEF WriteLock, TypeInv, TypeOK
<1>24. ASSUME NEW p \in Proc, NEW t \in Target, WriteFill(p, t) PROVE TypeInv'
  <2>0. name[p] \in Ref
    BY <1>24 DEF WriteFill, TypeInv, NameInv
  <2>1. loose' \in [Ref -> Content] /\ refLock' \in [Ref -> Content]
        /\ packed' \in Packed /\ past' \in [Ref -> SUBSET Target]
    BY <1>24, <2>0 DEF WriteFill, TypeInv, TypeOK
  <2>2. GoTo(p, "wRename") /\ name' = name /\ Closed(p) /\ Observe
    BY <1>24 DEF WriteFill
  <2>3. pc' \in [Proc -> PC] /\ NameInv'
    BY <2>0, <2>2, GoToType DEF PC
  <2>4. saw' \in [Proc -> SUBSET Content]
    BY <2>1, <2>2, ObserveType
  <2>5. out' \in [Proc -> Path]
    BY <2>2, OutType, PathTypes
  <2> QED
    BY <1>24, <2>1, <2>3, <2>4, <2>5 DEF WriteFill, TypeInv, TypeOK
<1>2. ASSUME NEW p \in Proc, WriteRename(p) PROVE TypeInv'
  <2>0. name[p] \in Ref
    BY <1>2 DEF WriteRename, TypeInv, NameInv
  <2>1. loose' \in [Ref -> Content]
        /\ refLock' \in [Ref -> Content]
        /\ packed' \in Packed
    BY <1>2, <2>0 DEF WriteRename, TypeInv, TypeOK
  <2>2. past' \in [Ref -> SUBSET Target]
    BY <1>2, <2>0 DEF WriteRename, TypeInv, TypeOK
  <2>5. out' \in [Proc -> Path]
    BY <1>2, <2>0, OutType, PathTypes DEF WriteRename, TypeInv, TypeOK
  <2>3. CASE refLock[name[p]] # NoTarget
    <3>1. Return(p)
      BY <1>2, <2>3 DEF WriteRename
    <3>2. \A q \in Proc : pc[q] = "rPacked" => name'[q] = name[q]
      BY <1>2, <3>1 DEF WriteRename, Return, TypeInv, TypeOK
    <3>3. saw' \in [Proc -> SUBSET Content]
      BY <1>2, <2>1, <3>2, ObserveType DEF WriteRename
    <3> QED
      BY <1>2, <2>1, <2>2, <2>5, <3>1, <3>3, ReturnType
      DEF WriteRename, TypeInv, TypeOK
  <2>4. CASE refLock[name[p]] = NoTarget
    <3>1. GoTo(p, "unlinkRef") /\ UNCHANGED <<name, snap, todo, prune>>
      BY <1>2, <2>4 DEF WriteRename
    <3>2. pc' \in [Proc -> PC] /\ NameInv'
      BY <2>0, <3>1, GoToType DEF PC
    <3>3. saw' \in [Proc -> SUBSET Content]
      BY <1>2, <2>1, <3>1, ObserveType DEF WriteRename
    <3> QED
      BY <1>2, <2>1, <2>2, <2>5, <3>1, <3>2, <3>3 DEF WriteRename, TypeInv, TypeOK
  <2> QED
    BY <2>3, <2>4
<1>3. ASSUME NEW p \in Proc, UnlinkRefLock(p) PROVE TypeInv'
  <2>1. refLock' \in [Ref -> Content]
    BY <1>3 DEF UnlinkRefLock, TypeInv, TypeOK
  <2>2. name[p] \in Ref
    BY <1>3 DEF UnlinkRefLock, TypeInv, NameInv
  <2>3. out' \in [Proc -> Path]
    BY <1>3, <2>2, OutType, PathTypes DEF UnlinkRefLock
  <2> QED
    BY <1>3, <2>1, <2>3, ReturnType DEF UnlinkRefLock, TypeInv, TypeOK
<1>4. ASSUME NEW p \in Proc, NEW r \in Ref, DeleteLoose(p, r) PROVE TypeInv'
  <2>1. loose' \in [Ref -> Content] /\ packed' \in Packed
    BY <1>4 DEF DeleteLoose, TypeInv, TypeOK
  <2>2. name' \in [Proc -> Ref \cup {NoRef}] /\ name'[p] \in Ref
    BY <1>4 DEF DeleteLoose, TypeInv, TypeOK
  <2>3. pc' \in [Proc -> PC]
    BY <1>4 DEF DeleteLoose, GoTo, TypeInv, TypeOK, PC
  <2>4. NameInv'
    BY <1>4, <2>2 DEF DeleteLoose, GoTo, TypeInv, TypeOK, NameInv
  <2>5. \A q \in Proc : pc[q] = "rPacked" => name'[q] = name[q]
    BY <1>4 DEF DeleteLoose, TypeInv, TypeOK
  <2>6. saw' \in [Proc -> SUBSET Content]
    BY <1>4, <2>1, <2>5, ObserveType DEF DeleteLoose
  <2>7. out' \in [Proc -> Path]
    BY <1>4, OutType, PathTypes DEF DeleteLoose
  <2> QED
    BY <1>4, <2>1, <2>2, <2>3, <2>4, <2>6, <2>7 DEF DeleteLoose, TypeInv, TypeOK
<1>5. ASSUME NEW p \in Proc, DeleteScan(p) PROVE TypeInv'
  <2>1. name[p] \in Ref
    BY <1>5 DEF DeleteScan, TypeInv, NameInv
  <2>2. CASE Return(p)
    BY <1>5, <2>2, ReturnType DEF DeleteScan, TypeInv, TypeOK
  <2>3. CASE GoTo(p, "dOpen") /\ UNCHANGED <<name, snap, todo, prune>>
    <3>1. pc' \in [Proc -> PC] /\ NameInv'
      BY <2>1, <2>3, GoToType DEF PC
    <3> QED
      BY <1>5, <2>3, <3>1 DEF DeleteScan, TypeInv, TypeOK
  <2> QED
    BY <1>5, <2>2, <2>3 DEF DeleteScan
<1>6. ASSUME NEW p \in Proc, DeleteOpen(p) PROVE TypeInv'
  <2>1. pc' \in [Proc -> PC] /\ NameInv'
    BY <1>6 DEF DeleteOpen, GoTo, TypeInv, TypeOK, NameInv, PC
  <2>2. snap' \in [Proc -> Packed]
    BY <1>6 DEF DeleteOpen, TypeInv, TypeOK
  <2> QED
    BY <1>6, <2>1, <2>2 DEF DeleteOpen, TypeInv, TypeOK
<1>7. ASSUME NEW p \in Proc, DeleteLock(p) PROVE TypeInv'
  <2>1. pc' \in [Proc -> PC] /\ NameInv'
    BY <1>7 DEF DeleteLock, GoTo, TypeInv, TypeOK, NameInv, PC
  <2>2. EmptyPacked \in Packed
    BY DEF EmptyPacked, Packed
  <2>3. newLock' \in Packed \cup {NoFile}
    BY <1>7, <2>2 DEF DeleteLock, TypeInv, TypeOK
  <2>4. out' \in [Proc -> Path]
    BY <1>7, OutType, PathTypes DEF DeleteLock, TypeInv, TypeOK
  <2> QED
    BY <1>7, <2>1, <2>3, <2>4 DEF DeleteLock, TypeInv, TypeOK
<1>25. ASSUME NEW p \in Proc, DeleteFill(p) PROVE TypeInv'
  <2>1. name[p] \in Ref /\ Kept(p) \in Packed
    BY <1>25 DEF DeleteFill, Kept, TypeInv, TypeOK, NameInv, Packed
  <2>2. /\ GoTo(p, "dRename") /\ name' = name /\ loose' \in [Ref -> Content]
        /\ packed' \in Packed /\ newLock' \in Packed \cup {NoFile} /\ Closed(p) /\ Observe
    BY <1>25, <2>1 DEF DeleteFill, TypeInv, TypeOK
  <2>3. pc' \in [Proc -> PC] /\ NameInv'
    BY <2>1, <2>2, GoToType DEF PC
  <2>4. saw' \in [Proc -> SUBSET Content]
    BY <2>2, ObserveType
  <2>5. out' \in [Proc -> Path]
    BY <2>2, OutType, PathTypes
  <2> QED
    BY <1>25, <2>2, <2>3, <2>4, <2>5 DEF DeleteFill, TypeInv, TypeOK
<1>8. ASSUME NEW p \in Proc, DeleteRename(p) PROVE TypeInv'
  <2>0. name[p] \in Ref
    BY <1>8 DEF DeleteRename, TypeInv, NameInv
  <2>1. packed' \in Packed /\ newLock' \in Packed \cup {NoFile}
    BY <1>8 DEF DeleteRename, TypeInv, TypeOK
  <2>2. loose' \in [Ref -> Content]
    BY <1>8 DEF DeleteRename, TypeInv, TypeOK
  <2>5. out' \in [Proc -> Path]
    BY <1>8, OutType, PathTypes DEF DeleteRename, TypeInv, TypeOK
  <2>3. CASE Return(p)
    <3>1. \A q \in Proc : pc[q] = "rPacked" => name'[q] = name[q]
      BY <1>8, <2>3 DEF DeleteRename, Return, TypeInv, TypeOK
    <3>2. saw' \in [Proc -> SUBSET Content]
      BY <1>8, <2>1, <2>2, <3>1, ObserveType DEF DeleteRename
    <3> QED
      BY <1>8, <2>1, <2>2, <2>3, <2>5, <3>2, ReturnType
      DEF DeleteRename, TypeInv, TypeOK
  <2>4. CASE GoTo(p, "unlinkNew") /\ UNCHANGED <<name, snap, todo, prune>>
    <3>1. pc' \in [Proc -> PC] /\ NameInv'
      BY <2>0, <2>4, GoToType DEF PC
    <3>2. saw' \in [Proc -> SUBSET Content]
      BY <1>8, <2>1, <2>2, <2>4, ObserveType DEF DeleteRename
    <3> QED
      BY <1>8, <2>1, <2>2, <2>4, <2>5, <3>1, <3>2 DEF DeleteRename, TypeInv, TypeOK
  <2> QED
    BY <1>8, <2>3, <2>4 DEF DeleteRename
<1>9. ASSUME NEW p \in Proc, UnlinkNewLock(p) PROVE TypeInv'
  <2>1. out' \in [Proc -> Path]
    BY <1>9, OutType, PathTypes DEF UnlinkNewLock
  <2> QED
    BY <1>9, <2>1, ReturnType DEF UnlinkNewLock, TypeInv, TypeOK
<1>10. ASSUME NEW p \in Proc, PackRead(p) PROVE TypeInv'
  <2>1. pc' \in [Proc -> PC] /\ NameInv'
    BY <1>10 DEF PackRead, GoTo, TypeInv, TypeOK, NameInv, PC
  <2>2. snap' \in [Proc -> Packed]
    BY <1>10 DEF PackRead, TypeInv, TypeOK
  <2> QED
    BY <1>10, <2>1, <2>2 DEF PackRead, TypeInv, TypeOK
<1>11. ASSUME NEW p \in Proc, PackList(p) PROVE TypeInv'
  <2>1. pc' \in [Proc -> PC] /\ NameInv'
    BY <1>11 DEF PackList, GoTo, TypeInv, TypeOK, NameInv, PC
  <2>2. todo' \in [Proc -> SUBSET Ref]
    BY <1>11 DEF PackList, TypeInv, TypeOK
  <2> QED
    BY <1>11, <2>1, <2>2 DEF PackList, TypeInv, TypeOK
<1>12. ASSUME NEW p \in Proc, NEW r \in Ref, NEW t, PackEntry(p, r, t)
       PROVE  /\ snap' \in [Proc -> Packed]
              /\ todo' \in [Proc -> SUBSET Ref]
              /\ prune' \in [Proc -> SUBSET Ref]
  <2>1. t \in Id => [snap[p] EXCEPT ![r] = t] \in Packed
    BY DEF TypeInv, TypeOK, Packed
  <2>2. snap' \in [Proc -> Packed]
    BY <1>12, <2>1 DEF PackEntry, TypeInv, TypeOK
  <2>3. todo' \in [Proc -> SUBSET Ref]
    BY <1>12 DEF PackEntry, TypeInv, TypeOK
  <2>4. prune' \in [Proc -> SUBSET Ref]
    BY <1>12 DEF PackEntry, TypeInv, TypeOK
  <2> QED
    BY <2>2, <2>3, <2>4
<1>13. ASSUME NEW p \in Proc, PackReadLoose(p) PROVE TypeInv'
  <2>0. PICK r \in todo[p] : EntryRead(p, r)
    BY <1>13, ReadsEntry
  <2>1. r \in Ref
    BY DEF TypeInv, TypeOK
  <2>2. CASE loose[r] \in Target
    <3>1. PackEntry(p, r, loose[r]) /\ UNCHANGED <<pc, name>>
      BY <2>0, <2>2 DEF EntryRead, Target
    <3> QED
      BY <1>12, <1>13, <2>1, <3>1 DEF PackReadLoose, TypeInv, TypeOK, NameInv
  <2>3. CASE loose[r] = NoTarget
    <3>0. name' = [name EXCEPT ![p] = r] /\ GoTo(p, "pPacked") /\ UNCHANGED <<snap, todo, prune>>
      BY <2>0, <2>3 DEF EntryRead, Target
    <3>1. name' \in [Proc -> Ref \cup {NoRef}] /\ name'[p] \in Ref
      BY <2>1, <3>0 DEF TypeInv, TypeOK
    <3>2. pc' \in [Proc -> PC]
      BY <3>0 DEF GoTo, TypeInv, TypeOK, PC
    <3>3. NameInv'
      BY <2>1, <3>0 DEF GoTo, TypeInv, TypeOK, NameInv
    <3> QED
      BY <1>13, <3>0, <3>1, <3>2, <3>3 DEF PackReadLoose, TypeInv, TypeOK
  <2>4. CASE Return(p)
    BY <1>13, <2>4, ReturnType DEF PackReadLoose, TypeInv, TypeOK
  <2> QED
    BY <2>0, <2>2, <2>3, <2>4 DEF EntryRead
<1>14. ASSUME NEW p \in Proc, PackReadPacked(p) PROVE TypeInv'
  <2>1. name[p] \in Ref
    BY <1>14 DEF PackReadPacked, TypeInv, NameInv
  <2>3. CASE packed[name[p]] # NoTarget
    <3>1. /\ PackEntry(p, name[p], packed[name[p]])
          /\ name' = [name EXCEPT ![p] = NoRef]
          /\ GoTo(p, "pRef")
      BY <1>14, <2>3 DEF PackReadPacked
    <3>2. pc' \in [Proc -> PC]
      BY <3>1 DEF GoTo, TypeInv, TypeOK, PC
    <3>3. NameInv' /\ name' \in [Proc -> Ref \cup {NoRef}]
      BY <3>1 DEF GoTo, TypeInv, TypeOK, NameInv
    <3>4. /\ snap' \in [Proc -> Packed]
          /\ todo' \in [Proc -> SUBSET Ref]
          /\ prune' \in [Proc -> SUBSET Ref]
      BY <1>12, <2>1, <3>1
    <3> QED
      BY <1>14, <3>2, <3>3, <3>4 DEF PackReadPacked, TypeInv, TypeOK
  <2>4. CASE packed[name[p]] = NoTarget
    BY <1>14, <2>4, ReturnType DEF PackReadPacked, TypeInv, TypeOK
  <2> QED
    BY <2>3, <2>4
<1>15. ASSUME NEW p \in Proc, PackLock(p) PROVE TypeInv'
  <2>1. pc' \in [Proc -> PC] /\ NameInv'
    BY <1>15 DEF PackLock, GoTo, TypeInv, TypeOK, NameInv, PC
  <2>2. EmptyPacked \in Packed
    BY DEF EmptyPacked, Packed
  <2>3. packLock' \in Packed \cup {NoFile}
    BY <1>15, <2>2 DEF PackLock, TypeInv, TypeOK
  <2>4. out' \in [Proc -> Path]
    BY <1>15, OutType, PathTypes DEF PackLock, TypeInv, TypeOK
  <2> QED
    BY <1>15, <2>1, <2>3, <2>4 DEF PackLock, TypeInv, TypeOK
<1>26. ASSUME NEW p \in Proc, PackFill(p) PROVE TypeInv'
  <2>2. /\ GoTo(p, "pRename") /\ name' = name /\ loose' \in [Ref -> Content]
        /\ packed' \in Packed /\ packLock' \in Packed \cup {NoFile} /\ Closed(p) /\ Observe
    BY <1>26 DEF PackFill, TypeInv, TypeOK
  <2>3. pc' \in [Proc -> PC] /\ NameInv'
    BY <2>2, GoToType DEF PC
  <2>4. saw' \in [Proc -> SUBSET Content]
    BY <2>2, ObserveType
  <2>5. out' \in [Proc -> Path]
    BY <2>2, OutType, PathTypes
  <2> QED
    BY <1>26, <2>2, <2>3, <2>4, <2>5 DEF PackFill, TypeInv, TypeOK
<1>16. ASSUME NEW p \in Proc, PackRename(p) PROVE TypeInv'
  <2>1. packed' \in Packed /\ packLock' \in Packed \cup {NoFile}
        /\ loose' \in [Ref -> Content]
    BY <1>16 DEF PackRename, TypeInv, TypeOK
  <2>2. prune' \in [Proc -> SUBSET Ref]
    BY <1>16 DEF PackRename, TypeInv, TypeOK
  <2>3. pc' \in [Proc -> PC] /\ NameInv'
    BY <1>16 DEF PackRename, GoTo, TypeInv, TypeOK, NameInv, PC
  <2>4. saw' \in [Proc -> SUBSET Content]
    BY <1>16, <2>1, ObserveType DEF PackRename
  <2>5. out' \in [Proc -> Path]
    BY <1>16, OutType, PathTypes DEF PackRename, TypeInv, TypeOK
  <2> QED
    BY <1>16, <2>1, <2>2, <2>3, <2>4, <2>5 DEF PackRename, TypeInv, TypeOK
<1>17. ASSUME NEW p \in Proc, UnlinkPackLock(p) PROVE TypeInv'
  <2>1. out' \in [Proc -> Path]
    BY <1>17, OutType, PathTypes DEF UnlinkPackLock
  <2> QED
    BY <1>17, <2>1, ReturnType DEF UnlinkPackLock, TypeInv, TypeOK
<1>18. ASSUME NEW p \in Proc, PackPrune(p) PROVE TypeInv'
  <2>1. loose' \in [Ref -> Content] /\ packed' \in Packed
    BY <1>18 DEF PackPrune, TypeInv, TypeOK
  <2>2. prune' \in [Proc -> SUBSET Ref]
    BY <1>18 DEF PackPrune, TypeInv, TypeOK
  <2>3. saw' \in [Proc -> SUBSET Content]
    BY <1>18, <2>1, ObserveType DEF PackPrune
  <2>4. out' \in [Proc -> Path]
    <3>1. PICK r \in prune[p] : Unlinked(LooseFile(r))
      BY <1>18 DEF PackPrune
    <3>2. r \in Ref
      BY DEF TypeInv, TypeOK
    <3> QED
      BY <3>1, <3>2, OutType, PathTypes
  <2> QED
    BY <1>18, <2>1, <2>2, <2>3, <2>4 DEF PackPrune, TypeInv, TypeOK, NameInv
<1>19. ASSUME NEW p \in Proc, PackDone(p) PROVE TypeInv'
  BY <1>19, ReturnType DEF PackDone, TypeInv, TypeOK
<1>20. ASSUME NEW p \in Proc, NEW r \in Ref, ReadLoose(p, r) PROVE TypeInv'
  <2>1. name' \in [Proc -> Ref \cup {NoRef}]
    BY <1>20 DEF ReadLoose, TypeInv, TypeOK
  <2>2. pc' \in [Proc -> PC]
    BY <1>20 DEF ReadLoose, GoTo, TypeInv, TypeOK, PC
  <2>3. NameInv'
    BY <1>20 DEF ReadLoose, GoTo, TypeInv, TypeOK, NameInv
  <2>4. Resolved(r) \in Content
    BY DEF Resolved, TypeInv, TypeOK, Packed, Target
  <2>5. saw' \in [Proc -> SUBSET Content]
    BY <1>20, <2>4 DEF ReadLoose, TypeInv, TypeOK
  <2> QED
    BY <1>20, <2>1, <2>2, <2>3, <2>5 DEF ReadLoose, TypeInv, TypeOK
<1>21. ASSUME NEW p \in Proc, ReadPacked(p) PROVE TypeInv'
  <2>1. saw' \in [Proc -> SUBSET Content]
    BY <1>21 DEF ReadPacked, TypeInv, TypeOK
  <2> QED
    BY <1>21, <2>1, ReturnType DEF ReadPacked, TypeInv, TypeOK
<1>22. ASSUME NEW p \in Proc, Die(p) PROVE TypeInv'
  <2>1. saw' \in [Proc -> SUBSET Content]
    BY <1>22 DEF Die, TypeInv, TypeOK
  <2>2. deaths' \in 0 .. MaxDeaths
    BY <1>22 DEF Die, TypeInv, TypeOK
  <2>3. out' \in [Proc -> Path]
    BY <1>22, OutType, PathTypes DEF Die
  <2> QED
    BY <1>22, <2>1, <2>2, <2>3, ReturnType DEF Die, TypeInv, TypeOK
<1>27. ASSUME NEW p \in Proc, WriteFails(p) PROVE TypeInv'
  <2>1. pc' \in [Proc -> PC] /\ NameInv'
    BY <1>27 DEF WriteFails, GoTo, TypeInv, TypeOK, NameInv, PC
  <2>2. deaths' \in 0 .. MaxDeaths
    BY <1>27 DEF WriteFails, TypeInv, TypeOK
  <2>3. out' \in [Proc -> Path]
    BY <1>27, OutType, PathTypes DEF WriteFails
  <2> QED
    BY <1>27, <2>1, <2>2, <2>3 DEF WriteFails, TypeInv, TypeOK
<1>23. CASE UNCHANGED vars
  BY <1>23 DEF vars, TypeInv, TypeOK, NameInv
<1> QED
  BY <1>1, <1>2, <1>3, <1>4, <1>5, <1>6, <1>7, <1>8, <1>9, <1>10, <1>11, <1>13,
     <1>14, <1>15, <1>16, <1>17, <1>18, <1>19, <1>20, <1>21, <1>22, <1>23, <1>24,
     <1>25, <1>26, <1>27
  DEF Next, Proc

\* A repository at rest has the types.
LEMMA InitType == Init => TypeInv
<1> SUFFICES ASSUME Init PROVE TypeInv
  OBVIOUS
<1>1. /\ loose \in [Ref -> Content]
      /\ refLock \in [Ref -> Content]
      /\ past \in [Ref -> SUBSET Target]
      /\ saw \in [Proc -> SUBSET Content]
  BY DEF Init, Content
<1>2. EmptyPacked \in Packed
  BY DEF EmptyPacked, Packed
<1>3. /\ packed \in Packed /\ snap \in [Proc -> Packed]
      /\ packLock \in Packed \cup {NoFile} /\ newLock \in Packed \cup {NoFile}
  BY <1>2 DEF Init
<1>4. /\ pc \in [Proc -> PC] /\ name \in [Proc -> Ref \cup {NoRef}]
      /\ todo \in [Proc -> SUBSET Ref] /\ prune \in [Proc -> SUBSET Ref]
  BY DEF Init, PC
<1>5. deleted \in BOOLEAN /\ clashed \subseteq Ref /\ out \in [Proc -> Path]
  BY PathTypes DEF Init
<1>6. deaths \in 0 .. MaxDeaths
  BY RefStoreAssumption DEF Init
<1>7. NameInv
  BY DEF Init, NameInv
<1> QED
  BY <1>1, <1>3, <1>4, <1>5, <1>6, <1>7 DEF TypeInv, TypeOK

\* The type invariant of the reference store, for any names, ids and processes.
THEOREM RefStoreTypeOK == Spec => [](TypeOK /\ NameInv)
<1>1. Init => TypeInv
  BY InitType
<1>2. TypeInv /\ [Next]_vars => TypeInv'
  BY TypeStep
<1>3. TypeInv => TypeOK /\ NameInv
  BY DEF TypeInv
<1> QED
  BY <1>1, <1>2, <1>3, PTL DEF Spec

-----------------------------------------------------------------------------
(* Files that are created and not yet written *)

AtLock == {"wFill", "wRename", "unlinkRef"}

LocalFrame(p) ==
    \A q \in Proc \ {p} :
        /\ pc'[q] = pc[q] /\ name'[q] = name[q] /\ snap'[q] = snap[q]
        /\ todo'[q] = todo[q] /\ prune'[q] = prune[q]

\* An unwritten file belongs to a process that is about to write it, and it is
\* at its lock path or, when another process has renamed it, in place.
OutOK(p) ==
    /\ out[p] # Nowhere =>
        \/ pc[p] = "wFill" /\ out[p] \in {LockFile(name[p]), LooseFile(name[p])}
        \/ pc[p] = "dFill" /\ out[p] \in {NewLockFile, PackedFile}
        \/ pc[p] = "pFill" /\ out[p] \in {PackLockFile, PackedFile}
    /\ pc[p] = "wFill" => p \in Writers

\* An empty file is one that a process is about to write, unless one has died or
\* failed; and where no two writers were at work at once, the one that is at
\* work has its own file at the lock path.
EmptyOK(r) ==
    /\ loose[r] = Empty => deaths > 0 \/ \E p \in Proc : out[p] = LooseFile(r)
    /\ refLock[r] = Empty => deaths > 0 \/ \E p \in Proc : out[p] = LockFile(r)
    /\ r \notin clashed =>
        /\ loose[r] # Empty
        /\ \A p, q \in Proc : AtWork(p, r) /\ AtWork(q, r) => p = q
        /\ \A p \in Proc : pc[p] = "wFill" /\ name[p] = r => out[p] = LockFile(r)
        /\ \A p \in Proc : pc[p] = "wRename" /\ name[p] = r => refLock[r] # Empty

FileInv == (\A p \in Proc : OutOK(p)) /\ (\A r \in Ref : EmptyOK(r))

\* How a step of another process may move the file that a process holds open.
Moves(a, b) ==
    \/ b = a \/ b = Nowhere
    \/ \E r \in Ref : a = LockFile(r) /\ b = LooseFile(r)
    \/ a \in {NewLockFile, PackLockFile} /\ b = PackedFile

LEMMA OutFrame ==
    ASSUME FileInv, NEW p \in Proc, LocalFrame(p), OutOK(p)',
           \A q \in Proc \ {p} : Moves(out[q], out'[q])
    PROVE  \A q \in Proc : OutOK(q)'
<1> SUFFICES ASSUME NEW q \in Proc \ {p} PROVE OutOK(q)'
  OBVIOUS
<1>1. OutOK(q) /\ Moves(out[q], out'[q]) /\ pc'[q] = pc[q] /\ name'[q] = name[q]
  BY DEF FileInv, LocalFrame
<1> QED
  BY <1>1 DEF OutOK, Moves, LockFile, LooseFile, NewLockFile, PackLockFile, PackedFile, Nowhere

\* The paths are different ones.
LEMMA PathsDiffer ==
    /\ \A r, x : LooseFile(r) # LockFile(x)
    /\ \A r, x : LooseFile(r) = LooseFile(x) => r = x
    /\ \A r, x : LockFile(r) = LockFile(x) => r = x
    /\ \A r : {LooseFile(r), LockFile(r)}
                \cap {PackedFile, PackLockFile, NewLockFile, Nowhere} = {}
    /\ Nowhere \notin {PackedFile, PackLockFile, NewLockFile}
    /\ PackedFile \notin {PackLockFile, NewLockFile} /\ PackLockFile # NewLockFile
BY DEF LooseFile, LockFile, PackedFile, PackLockFile, NewLockFile, Nowhere

\* What the calls on files do to the file that q holds open.
LEMMA OutIs ==
    ASSUME TypeInv, NEW p \in Proc, NEW q \in Proc, NEW from, NEW to
    PROVE  /\ Unlinked(from) => out'[q] = IF out[q] = from THEN Nowhere ELSE out[q]
           /\ Opened(p, from) => out'[q] = IF q = p THEN from ELSE out[q]
           /\ Closed(p) => out'[q] = IF q = p THEN Nowhere ELSE out[q]
           /\ from # to /\ Renamed(from, to)
                => out'[q] = IF out[q] = from THEN to
                             ELSE IF out[q] = to THEN Nowhere ELSE out[q]
<1>0. out \in [Proc -> Path]
  BY DEF TypeInv, TypeOK
<1>1. Unlinked(from) => out'[q] = IF out[q] = from THEN Nowhere ELSE out[q]
  BY DEF Unlinked
<1>2. Opened(p, from) => out'[q] = IF q = p THEN from ELSE out[q]
  BY <1>0 DEF Opened
<1>3. Closed(p) => out'[q] = IF q = p THEN Nowhere ELSE out[q]
  BY <1>0 DEF Closed
<1>4. from # to /\ Renamed(from, to)
        => out'[q] = IF out[q] = from THEN to
                     ELSE IF out[q] = to THEN Nowhere ELSE out[q]
  BY DEF Renamed
<1> QED
  BY <1>1, <1>2, <1>3, <1>4

\* The steps of one process.
Step(p) ==
    \/ \E r \in Ref : WriteLock(p, r)
    \/ \E t \in Target : WriteFill(p, t)
    \/ WriteRename(p)
    \/ UnlinkRefLock(p)
    \/ \E r \in Ref : DeleteLoose(p, r)
    \/ DeleteScan(p)
    \/ DeleteOpen(p)
    \/ DeleteLock(p)
    \/ DeleteFill(p)
    \/ DeleteRename(p)
    \/ UnlinkNewLock(p)
    \/ PackRead(p)
    \/ PackList(p)
    \/ PackReadLoose(p)
    \/ PackReadPacked(p)
    \/ PackLock(p)
    \/ PackFill(p)
    \/ PackRename(p)
    \/ UnlinkPackLock(p)
    \/ PackPrune(p)
    \/ PackDone(p)
    \/ \E r \in Ref : ReadLoose(p, r)
    \/ ReadPacked(p)
    \/ Die(p)
    \/ WriteFails(p)

\* A step of p leaves the local variables of the others alone.
LEMMA StepFrame ==
    ASSUME TypeInv, NEW p \in Proc, Step(p)
    PROVE  LocalFrame(p)
<1>0. /\ pc \in [Proc -> PC] /\ name \in [Proc -> Ref \cup {NoRef}]
      /\ snap \in [Proc -> Packed] /\ todo \in [Proc -> SUBSET Ref]
      /\ prune \in [Proc -> SUBSET Ref]
  BY DEF TypeInv, TypeOK
<1> USE DEF LocalFrame, GoTo
<1>1. CASE Return(p)
  BY <1>0, <1>1 DEF Return
<1>2. CASE \E r \in Ref : WriteLock(p, r)
  BY <1>0, <1>1, <1>2 DEF WriteLock
<1>3. CASE \E t \in Target : WriteFill(p, t)
  BY <1>0, <1>1, <1>3 DEF WriteFill
<1>4. CASE WriteRename(p)
  BY <1>0, <1>1, <1>4 DEF WriteRename
<1>5. CASE \E r \in Ref : DeleteLoose(p, r)
  BY <1>0, <1>1, <1>5 DEF DeleteLoose
<1>6. CASE DeleteScan(p)
  BY <1>0, <1>1, <1>6 DEF DeleteScan
<1>7. CASE DeleteOpen(p) \/ PackRead(p)
  BY <1>0, <1>1, <1>7 DEF DeleteOpen, PackRead
<1>8. CASE DeleteLock(p) \/ DeleteFill(p)
  BY <1>0, <1>1, <1>8 DEF DeleteLock, DeleteFill
<1>9. CASE DeleteRename(p)
  BY <1>0, <1>1, <1>9 DEF DeleteRename
<1>10. CASE PackList(p)
  BY <1>0, <1>1, <1>10 DEF PackList
<1>11. CASE PackReadPacked(p)
  BY <1>0, <1>1, <1>11 DEF PackReadPacked, PackEntry
<1>12. CASE PackLock(p) \/ PackFill(p)
  BY <1>0, <1>1, <1>12 DEF PackLock, PackFill
<1>13. CASE PackRename(p)
  BY <1>0, <1>1, <1>13 DEF PackRename
<1>14. CASE PackPrune(p)
  BY <1>0, <1>1, <1>14 DEF PackPrune
<1>15. CASE \E r \in Ref : ReadLoose(p, r)
  BY <1>0, <1>1, <1>15 DEF ReadLoose
<1>16. CASE WriteFails(p)
  BY <1>0, <1>1, <1>16 DEF WriteFails
<1>17. CASE PackReadLoose(p)
  <2>1. PICK r \in todo[p] : EntryRead(p, r)
    BY <1>17, ReadsEntry
  <2> QED
    BY <1>0, <1>1, <2>1 DEF EntryRead, PackEntry
<1>18. CASE \/ UnlinkRefLock(p) \/ UnlinkNewLock(p) \/ UnlinkPackLock(p)
            \/ PackDone(p) \/ ReadPacked(p) \/ Die(p)
  BY <1>1, <1>18 DEF UnlinkRefLock, UnlinkNewLock, UnlinkPackLock, PackDone, ReadPacked, Die
<1> QED
  BY <1>2, <1>3, <1>4, <1>5, <1>6, <1>7, <1>8, <1>9, <1>10, <1>11, <1>12,
     <1>13, <1>14, <1>15, <1>16, <1>17, <1>18 DEF Step

\* A step that is none of write_ref's.
LEMMA OtherFile ==
    ASSUME FileInv, NEW p \in Proc, LocalFrame(p), OutOK(p)',
           pc[p] \notin AtLock, pc'[p] \notin AtLock,
           refLock' = refLock, clashed' = clashed, deaths' = deaths \/ deaths' > 0,
           \A q \in Proc : Moves(out[q], out'[q]) \/ q = p,
           \A r \in Ref : loose'[r] = loose[r] \/ loose'[r] = NoTarget,
           \A q \in Proc, r \in Ref : /\ out'[q] = LockFile(r) <=> out[q] = LockFile(r)
                                      /\ loose'[r] # NoTarget /\ out[q] = LooseFile(r)
                                           => out'[q] = LooseFile(r)
    PROVE  FileInv'
<1>1. \A q \in Proc : OutOK(q)'
  BY OutFrame
<1>2. ASSUME NEW r \in Ref PROVE EmptyOK(r)'
  <2>1. EmptyOK(r) /\ Empty # NoTarget
    BY RefStoreAssumption DEF FileInv
  <2>2. \A q \in Proc : AtWork(q, r)' <=> AtWork(q, r)
    BY DEF AtWork, LocalFrame, AtLock
  <2>3. \A q \in Proc : pc'[q] \in {"wFill", "wRename"} => pc'[q] = pc[q] /\ name'[q] = name[q]
    BY DEF LocalFrame, AtLock
  <2> QED
    BY <2>1, <2>2, <2>3 DEF EmptyOK
<1> QED
  BY <1>1, <1>2 DEF FileInv

\* The steps of delete_ref, pack_refs and read_ref.
LEMMA OtherSteps ==
    ASSUME TypeInv, FileInv, NEW p \in Proc, LocalFrame(p),
           \/ \E r \in Ref : DeleteLoose(p, r) \/ ReadLoose(p, r)
           \/ DeleteScan(p) \/ DeleteOpen(p) \/ DeleteLock(p) \/ DeleteFill(p)
           \/ DeleteRename(p) \/ UnlinkNewLock(p)
           \/ PackRead(p) \/ PackList(p) \/ PackReadLoose(p) \/ PackReadPacked(p)
           \/ PackLock(p) \/ PackFill(p) \/ PackRename(p) \/ UnlinkPackLock(p)
           \/ PackPrune(p) \/ PackDone(p) \/ ReadPacked(p)
    PROVE  FileInv'
<1>0. /\ pc \in [Proc -> PC] /\ OutOK(p)
      /\ Nowhere \notin {PackedFile, PackLockFile, NewLockFile}
      /\ loose \in [Ref -> Content]
  BY PathsDiffer DEF TypeInv, TypeOK, FileInv
<1> USE DEF AtLock
<1>1. ASSUME UNCHANGED <<loose, refLock, out, clashed, deaths>>, pc[p] \notin AtLock,
             out[p] = Nowhere, pc'[p] \notin AtLock
      PROVE  FileInv'
  <2>1. OutOK(p)' /\ \A q \in Proc : Moves(out[q], out'[q])
    BY <1>1 DEF OutOK, Moves
  <2> QED
    BY <1>1, <2>1, OtherFile
<1>2. ASSUME DeleteScan(p) \/ DeleteOpen(p) \/ PackRead(p) \/ PackList(p) \/ PackReadLoose(p)
             \/ PackReadPacked(p) \/ PackDone(p) \/ ReadPacked(p)
             \/ \E r \in Ref : ReadLoose(p, r)
      PROVE  FileInv'
  <2>1. UNCHANGED <<loose, refLock, out, clashed, deaths>>
    BY <1>2 DEF DeleteScan, DeleteOpen, PackRead, PackList, PackReadLoose, PackReadPacked,
         PackDone, ReadPacked, ReadLoose, files, ghosts
  <2>2. pc[p] \in {"dScan", "dOpen", "idle", "pList", "pRef", "pPacked", "pPrune", "rPacked"}
    BY <1>2 DEF DeleteScan, DeleteOpen, PackRead, PackList, PackReadLoose, PackReadPacked,
         PackDone, ReadPacked, ReadLoose
  <2>3. CASE PackReadLoose(p)
    <3>1. PICK r \in todo[p] : EntryRead(p, r)
      BY <2>3, ReadsEntry
    <3>2. pc'[p] \in {"pRef", "idle", "pPacked"}
      BY <1>0, <2>3, <3>1 DEF EntryRead, PackReadLoose, Return, GoTo
    <3> QED
      BY <1>0, <1>1, <2>1, <2>2, <3>2 DEF OutOK
  <2>4. CASE ~PackReadLoose(p)
    <3>1. pc'[p] \notin AtLock
      BY <1>0, <1>2, <2>4 DEF DeleteScan, DeleteOpen, PackRead, PackList, PackReadPacked,
           PackDone, ReadPacked, ReadLoose, Return, GoTo
    <3> QED
      BY <1>0, <1>1, <2>1, <2>2, <3>1 DEF OutOK
  <2> QED
    BY <2>3, <2>4
<1>3. ASSUME UNCHANGED <<loose, refLock, clashed, deaths>>, pc[p] \notin AtLock,
             pc'[p] \notin AtLock, OutOK(p)',
             NEW from \in {NewLockFile, PackLockFile},
             \/ Renamed(from, PackedFile) \/ Unlinked(from) \/ Opened(p, from)
             \/ Closed(p) \/ out' = out
      PROVE  FileInv'
  <2>1. from # PackedFile
    BY PathsDiffer
  <2>2. \A q \in Proc : Moves(out[q], out'[q]) \/ q = p
    BY <1>3, <2>1, OutIs DEF Moves
  <2>3. \A q \in Proc, r \in Ref :
            /\ out'[q] = LockFile(r) <=> out[q] = LockFile(r)
            /\ out'[q] = LooseFile(r) <=> out[q] = LooseFile(r)
    <3> SUFFICES ASSUME NEW q \in Proc, NEW r \in Ref
                 PROVE  /\ out'[q] = LockFile(r) <=> out[q] = LockFile(r)
                        /\ out'[q] = LooseFile(r) <=> out[q] = LooseFile(r)
      OBVIOUS
    <3>1. /\ LockFile(r) \notin {PackedFile, PackLockFile, NewLockFile, Nowhere}
          /\ LooseFile(r) \notin {PackedFile, PackLockFile, NewLockFile, Nowhere}
      BY PathsDiffer
    <3>2. out[p] \notin {LockFile(r), LooseFile(r)}
      BY <1>0, <1>3, <3>1 DEF OutOK
    <3> QED
      BY <1>3, <2>1, <3>1, <3>2, OutIs
  <2> QED
    BY <1>3, <2>2, <2>3, OtherFile
<1>4. ASSUME UnlinkNewLock(p) \/ UnlinkPackLock(p) PROVE FileInv'
  <2>1. /\ UNCHANGED <<loose, refLock, clashed, deaths>> /\ pc[p] \in {"unlinkNew", "unlinkPack"}
        /\ Return(p) /\ (Unlinked(NewLockFile) \/ Unlinked(PackLockFile))
    BY <1>4 DEF UnlinkNewLock, UnlinkPackLock, ghosts
  <2>2. pc'[p] = "idle" /\ out'[p] = Nowhere
    BY <1>0, <2>1, OutIs DEF Return, GoTo, OutOK
  <2>3. OutOK(p)'
    BY <2>2 DEF OutOK
  <2> QED
    BY <1>3, <2>1, <2>2, <2>3
<1>5. ASSUME DeleteLock(p) \/ PackLock(p) PROVE FileInv'
  <2>1. /\ UNCHANGED <<loose, refLock, clashed, deaths>> /\ pc[p] \in {"dLock", "pRef"}
        /\ \/ Opened(p, NewLockFile) /\ pc'[p] = "dFill"
           \/ Opened(p, PackLockFile) /\ pc'[p] = "pFill"
           \/ out' = out /\ pc'[p] \in {"unlinkNew", "unlinkPack"}
    BY <1>0, <1>5 DEF DeleteLock, PackLock, ghosts, GoTo
  <2>2. OutOK(p)'
    BY <1>0, <2>1, OutIs DEF OutOK
  <2> QED
    BY <1>3, <2>1, <2>2
<1>6. ASSUME DeleteFill(p) \/ PackFill(p) PROVE FileInv'
  <2>1. /\ UNCHANGED <<loose, refLock, clashed, deaths>> /\ pc[p] \in {"dFill", "pFill"}
        /\ Closed(p) /\ pc'[p] \in {"dRename", "pRename"}
    BY <1>0, <1>6 DEF DeleteFill, PackFill, GoTo
  <2>2. OutOK(p)'
    BY <1>0, <2>1, OutIs DEF OutOK
  <2> QED
    BY <1>3, <2>1, <2>2
<1>7. ASSUME DeleteRename(p) \/ PackRename(p) PROVE FileInv'
  <2>1. /\ UNCHANGED <<loose, refLock, clashed, deaths>> /\ pc[p] \in {"dRename", "pRename"}
        /\ pc'[p] \in {"idle", "unlinkNew", "unlinkPack", "pPrune"}
        /\ Renamed(NewLockFile, PackedFile) \/ Renamed(PackLockFile, PackedFile) \/ out' = out
    BY <1>0, <1>7 DEF DeleteRename, PackRename, Return, GoTo
  <2>2. out[p] = Nowhere
    BY <1>0, <2>1 DEF OutOK
  <2>3. out'[p] = Nowhere
    BY <1>0, <2>1, <2>2, OutIs, PathsDiffer
  <2>4. OutOK(p)'
    BY <2>1, <2>3 DEF OutOK
  <2> QED
    BY <1>3, <2>1, <2>4
<1>8. ASSUME PackPrune(p) \/ \E r \in Ref : DeleteLoose(p, r) PROVE FileInv'
  <2>1. PICK r \in Ref : loose' = [loose EXCEPT ![r] = NoTarget] /\ Unlinked(LooseFile(r))
    BY <1>8 DEF PackPrune, DeleteLoose, TypeInv, TypeOK
  <2>2. /\ UNCHANGED <<refLock, clashed, deaths>> /\ pc[p] \in {"pPrune", "idle"}
        /\ pc'[p] \in {"pPrune", "dScan"}
    BY <1>0, <1>8 DEF PackPrune, DeleteLoose, GoTo
  <2>3. \A q \in Proc : out'[q] = IF out[q] = LooseFile(r) THEN Nowhere ELSE out[q]
    BY <2>1, OutIs
  <2>4. OutOK(p)'
    BY <1>0, <2>2, <2>3 DEF OutOK
  <2>5. \A q \in Proc : Moves(out[q], out'[q])
    BY <2>3 DEF Moves
  <2>6. \A q \in Proc, x \in Ref :
            /\ out'[q] = LockFile(x) <=> out[q] = LockFile(x)
            /\ loose'[x] # NoTarget /\ out[q] = LooseFile(x) => out'[q] = LooseFile(x)
    BY <1>0, <2>1, <2>3, PathsDiffer
  <2>7. \A x \in Ref : loose'[x] = loose[x] \/ loose'[x] = NoTarget
    BY <1>0, <2>1
  <2> QED
    BY <2>2, <2>4, <2>5, <2>6, <2>7, OtherFile
<1> QED
  BY <1>2, <1>4, <1>5, <1>6, <1>7, <1>8

\* The steps of write_ref, and those that end any operation early.
LEMMA WriterSteps ==
    ASSUME TypeInv, FileInv, NEW p \in Proc, LocalFrame(p), p \in Writers \/ pc[p] # "idle",
           \/ \E r \in Ref : WriteLock(p, r)
           \/ \E t \in Target : WriteFill(p, t)
           \/ WriteRename(p) \/ UnlinkRefLock(p) \/ Die(p) \/ WriteFails(p)
    PROVE  FileInv'
<1>0. /\ pc \in [Proc -> PC] /\ name \in [Proc -> Ref \cup {NoRef}] /\ OutOK(p)
      /\ loose \in [Ref -> Content] /\ refLock \in [Ref -> Content] /\ deaths \in Nat
      /\ (\A r \in Ref : EmptyOK(r)) /\ Empty # NoTarget
      /\ \A t \in Target : t # Empty /\ t # NoTarget
  BY RefStoreAssumption DEF TypeInv, TypeOK, FileInv, Target
<1> DEFINE Same(q) == pc'[q] = pc[q] /\ name'[q] = name[q]
<1>00. \A q \in Proc : q # p => Same(q)
  BY DEF LocalFrame
<1>1. ASSUME NEW r \in Ref, WriteLock(p, r) PROVE FileInv'
  <2>1. /\ pc[p] = "idle" /\ name'[p] = r /\ UNCHANGED <<loose, deaths>> /\ p \in Writers
        /\ clashed' = clashed \cup {x \in {r} : \E q \in Proc : AtWork(q, x)}
        /\ \/ /\ refLock[r] = NoTarget /\ refLock' = [refLock EXCEPT ![r] = Empty]
              /\ Opened(p, LockFile(r)) /\ pc'[p] = "wFill"
           \/ UNCHANGED <<refLock, out>> /\ pc'[p] = "unlinkRef"
    BY <1>0, <1>1 DEF WriteLock, GoTo
  <2>2. out[p] = Nowhere /\ \A q \in Proc : q # p => out'[q] = out[q]
    BY <1>0, <2>1, OutIs DEF OutOK
  <2>3. \/ pc'[p] = "wFill" /\ out'[p] = LockFile(r)
        \/ pc'[p] = "unlinkRef" /\ out'[p] = Nowhere
    BY <2>1, <2>2, OutIs
  <2>4. \A q \in Proc : OutOK(q)'
    <3>1. OutOK(p)'
      BY <2>1, <2>3 DEF OutOK
    <3>2. \A q \in Proc \ {p} : Moves(out[q], out'[q])
      BY <2>2 DEF Moves
    <3> QED
      BY <3>1, <3>2, OutFrame
  <2>5. ASSUME NEW x \in Ref PROVE EmptyOK(x)'
    <3>1. EmptyOK(x) /\ loose'[x] = loose[x] /\ deaths' = deaths
      BY <1>0, <2>1
    <3>2. \A q \in Proc : out[q] \in {LooseFile(x), LockFile(x)} => out'[q] = out[q]
      BY <2>2, PathsDiffer
    <3>3. refLock'[x] = refLock[x] \/ (x = r /\ out'[p] = LockFile(x) /\ refLock'[x] = Empty)
      <4>1. CASE refLock' = [refLock EXCEPT ![r] = Empty] /\ pc'[p] = "wFill"
        BY <1>0, <2>3, <4>1
      <4>2. CASE refLock' = refLock
        BY <4>2
      <4> QED
        BY <2>1, <4>1, <4>2
    <3>4. CASE x # r
      <4>1. \A q \in Proc : AtWork(q, x)' <=> AtWork(q, x)
        BY <1>00, <2>1, <3>4 DEF AtWork
      <4>2. \A q \in Proc : pc'[q] \in {"wFill", "wRename"} /\ name'[q] = x => q # p
        BY <2>1, <3>4
      <4>3. x \notin clashed' => x \notin clashed
        BY <2>1
      <4>4. refLock'[x] = refLock[x]
        BY <3>3, <3>4
      <4> QED
        BY <1>00, <2>2, <3>1, <3>2, <4>1, <4>2, <4>3, <4>4 DEF EmptyOK
    <3>5. CASE x = r /\ x \notin clashed'
      <4>1. x \notin clashed /\ \A q \in Proc : ~AtWork(q, x)
        BY <2>1, <3>5
      <4>2. \A q \in Proc : AtWork(q, x)' => q = p
        BY <1>00, <4>1 DEF AtWork
      <4>3. \A q \in Proc : pc'[q] \in {"wFill", "wRename"} /\ name'[q] = x => q = p
        BY <4>2 DEF AtWork
      <4> QED
        BY <2>3, <3>1, <3>2, <3>3, <3>5, <4>1, <4>2, <4>3 DEF EmptyOK
    <3>6. CASE x = r /\ x \in clashed'
      BY <3>1, <3>2, <3>3, <3>6 DEF EmptyOK
    <3> QED
      BY <3>4, <3>5, <3>6
  <2> QED
    BY <2>4, <2>5 DEF FileInv
<1>2. ASSUME NEW t \in Target, WriteFill(p, t) PROVE FileInv'
  <2> DEFINE r == name[p]
  <2>1. /\ pc[p] = "wFill" /\ pc'[p] = "wRename" /\ name'[p] = r /\ r \in Ref
        /\ UNCHANGED <<deaths, clashed>> /\ Closed(p)
        /\ refLock' = (IF out[p] = LockFile(r) THEN [refLock EXCEPT ![r] = t] ELSE refLock)
        /\ loose' = IF out[p] = LooseFile(r) THEN [loose EXCEPT ![r] = t] ELSE loose
    BY <1>0, <1>2 DEF WriteFill, GoTo, TypeInv, NameInv
  <2>2. \A q \in Proc : out'[q] = IF q = p THEN Nowhere ELSE out[q]
    BY <2>1, OutIs
  <2>3. \A q \in Proc : OutOK(q)'
    <3>1. OutOK(p)'
      BY <2>1, <2>2 DEF OutOK
    <3>2. \A q \in Proc \ {p} : Moves(out[q], out'[q])
      BY <2>2 DEF Moves
    <3> QED
      BY <3>1, <3>2, OutFrame
  <2>4. out[p] \in {LockFile(r), LooseFile(r), Nowhere}
    BY <1>0, <2>1 DEF OutOK
  <2> HIDE DEF r
  <2>5. ASSUME NEW x \in Ref PROVE EmptyOK(x)'
    <3>1. EmptyOK(x)
      BY <1>0
    <3>2. /\ loose'[x] = IF out[p] = LooseFile(x) THEN t ELSE loose[x]
          /\ refLock'[x] = IF out[p] = LockFile(x) THEN t ELSE refLock[x]
      BY <1>0, <2>1, <2>4, PathsDiffer
    <3>3. \A q \in Proc : AtWork(q, x)' <=> AtWork(q, x)
      BY <1>00, <2>1 DEF AtWork, r
    <3>4. t # Empty
      BY <1>0
    <3>5. /\ loose'[x] = Empty => deaths' > 0 \/ \E q \in Proc : out'[q] = LooseFile(x)
          /\ refLock'[x] = Empty => deaths' > 0 \/ \E q \in Proc : out'[q] = LockFile(x)
      BY <2>1, <2>2, <3>1, <3>2, <3>4 DEF EmptyOK
    <3>6. ASSUME x \notin clashed
          PROVE  /\ loose'[x] # Empty
                 /\ \A q \in Proc : pc'[q] = "wFill" /\ name'[q] = x => out'[q] = LockFile(x)
                 /\ \A q \in Proc : pc'[q] = "wRename" /\ name'[q] = x => refLock'[x] # Empty
      <4>1. loose[x] # Empty /\ (x = r => out[p] = LockFile(x))
        BY <2>1, <3>1, <3>6 DEF EmptyOK, r
      <4>2. \A q \in Proc : pc'[q] = "wFill" /\ name'[q] = x => out'[q] = LockFile(x)
        BY <1>00, <2>1, <2>2, <3>1, <3>6 DEF EmptyOK
      <4>3. \A q \in Proc : pc'[q] = "wRename" /\ name'[q] = x => refLock'[x] # Empty
        <5> SUFFICES ASSUME NEW q \in Proc, pc'[q] = "wRename", name'[q] = x
                     PROVE  refLock'[x] # Empty
          OBVIOUS
        <5>1. CASE q = p
          BY <2>1, <3>2, <3>4, <4>1, <5>1
        <5>2. CASE q # p
          BY <1>00, <3>1, <3>2, <3>4, <3>6, <5>2 DEF EmptyOK
        <5> QED
          BY <5>1, <5>2
      <4> QED
        BY <3>2, <3>4, <4>1, <4>2, <4>3
    <3> QED
      BY <2>1, <3>1, <3>3, <3>5, <3>6 DEF EmptyOK
  <2> QED
    BY <2>3, <2>5 DEF FileInv
<1>3. ASSUME NEW r \in Ref, pc[p] \in AtLock, name[p] = r, pc'[p] = "idle",
             UNCHANGED <<loose, deaths, clashed>>,
             refLock' = [refLock EXCEPT ![r] = NoTarget], Unlinked(LockFile(r)), out[p] = Nowhere
      PROVE  FileInv'
  <2>1. \A q \in Proc : out'[q] = IF out[q] = LockFile(r) THEN Nowhere ELSE out[q]
    BY <1>3, OutIs
  <2>2. \A q \in Proc : OutOK(q)'
    <3>1. OutOK(p)' /\ \A q \in Proc \ {p} : Moves(out[q], out'[q])
      BY <1>3, <2>1 DEF OutOK, Moves
    <3> QED
      BY <3>1, OutFrame
  <2>3. ASSUME NEW x \in Ref PROVE EmptyOK(x)'
    <3>1. EmptyOK(x) /\ refLock'[x] = IF x = r THEN NoTarget ELSE refLock[x]
      BY <1>0, <1>3
    <3>2. \A q \in Proc : AtWork(q, x)' => AtWork(q, x) /\ q # p
      BY <1>00, <1>3 DEF AtWork
    <3>3. /\ loose'[x] = Empty => deaths' > 0 \/ \E q \in Proc : out'[q] = LooseFile(x)
          /\ refLock'[x] = Empty => deaths' > 0 \/ \E q \in Proc : out'[q] = LockFile(x)
      BY <1>0, <1>3, <2>1, <3>1, PathsDiffer DEF EmptyOK
    <3>4. ASSUME x \notin clashed
          PROVE  /\ \A q \in Proc : pc'[q] = "wFill" /\ name'[q] = x => out'[q] = LockFile(x)
                 /\ \A q \in Proc : pc'[q] = "wRename" /\ name'[q] = x => refLock'[x] # Empty
      <4>1. CASE x = r
        <5>1. \A q \in Proc : ~AtWork(q, x)'
          BY <1>3, <3>1, <3>2, <3>4, <4>1 DEF EmptyOK, AtWork, AtLock
        <5> QED
          BY <5>1 DEF AtWork
      <4>2. CASE x # r
        BY <1>00, <1>3, <2>1, <3>1, <3>4, <4>2, PathsDiffer DEF EmptyOK
      <4> QED
        BY <4>1, <4>2
    <3> QED
      BY <1>3, <3>1, <3>2, <3>3, <3>4 DEF EmptyOK
  <2> QED
    BY <2>2, <2>3 DEF FileInv
<1>4. CASE UnlinkRefLock(p)
  <2>1. /\ pc[p] = "unlinkRef" /\ name[p] \in Ref /\ pc'[p] = "idle"
        /\ UNCHANGED <<loose, deaths, clashed>> /\ out[p] = Nowhere
        /\ refLock' = [refLock EXCEPT ![name[p]] = NoTarget] /\ Unlinked(LockFile(name[p]))
    BY <1>0, <1>4 DEF UnlinkRefLock, Return, GoTo, TypeInv, NameInv, ghosts, OutOK
  <2>2. PICK r \in Ref : r = name[p]
    BY <2>1
  <2> QED
    BY <1>3, <2>1, <2>2 DEF AtLock
<1>5. CASE WriteRename(p)
  <2>1. /\ pc[p] = "wRename" /\ name[p] \in Ref /\ UNCHANGED <<deaths, clashed>>
        /\ out[p] = Nowhere
    BY <1>0, <1>5 DEF WriteRename, TypeInv, NameInv, OutOK
  <2>2. PICK r \in Ref : r = name[p]
    BY <2>1
  <2>3. CASE refLock[r] = NoTarget
    <3>1. pc'[p] = "unlinkRef" /\ name'[p] = r /\ UNCHANGED <<loose, refLock, out>>
      BY <1>0, <1>5, <2>2, <2>3 DEF WriteRename, GoTo
    <3>2. \A q \in Proc : OutOK(q)'
      <4>1. OutOK(p)' /\ \A q \in Proc \ {p} : Moves(out[q], out'[q])
        BY <2>1, <3>1 DEF OutOK, Moves
      <4> QED
        BY <4>1, OutFrame
    <3>3. ASSUME NEW x \in Ref PROVE EmptyOK(x)'
      <4>1. EmptyOK(x) /\ \A q \in Proc : AtWork(q, x)' <=> AtWork(q, x)
        BY <1>0, <1>00, <2>1, <2>2, <3>1 DEF AtWork
      <4>2. \A q \in Proc : pc'[q] \in {"wFill", "wRename"} => Same(q)
        BY <1>00, <3>1
      <4> QED
        BY <2>1, <3>1, <4>1, <4>2 DEF EmptyOK
    <3> QED
      BY <3>2, <3>3 DEF FileInv
  <2>4. CASE refLock[r] # NoTarget
    <3>1. /\ pc'[p] = "idle" /\ loose' = [loose EXCEPT ![r] = refLock[r]]
          /\ refLock' = [refLock EXCEPT ![r] = NoTarget] /\ Renamed(LockFile(r), LooseFile(r))
      BY <1>0, <1>5, <2>2, <2>4 DEF WriteRename, Return, GoTo
    <3>2. \A q \in Proc : out'[q] = IF out[q] = LockFile(r) THEN LooseFile(r)
                                    ELSE IF out[q] = LooseFile(r) THEN Nowhere ELSE out[q]
      <4>1. LockFile(r) # LooseFile(r)
        BY PathsDiffer
      <4> QED
        BY <3>1, <4>1, OutIs
    <3>3. \A q \in Proc : OutOK(q)'
      <4>1. OutOK(p)'
        BY <2>1, <3>1, <3>2, PathsDiffer DEF OutOK
      <4>2. \A q \in Proc \ {p} : Moves(out[q], out'[q])
        BY <3>2 DEF Moves
      <4> QED
        BY <4>1, <4>2, OutFrame
    <3>4. ASSUME NEW x \in Ref PROVE EmptyOK(x)'
      <4>1. /\ EmptyOK(x) /\ refLock'[x] = (IF x = r THEN NoTarget ELSE refLock[x])
            /\ loose'[x] = IF x = r THEN refLock[x] ELSE loose[x]
        BY <1>0, <3>1
      <4>2. \A q \in Proc : AtWork(q, x)' => AtWork(q, x) /\ q # p
        BY <1>00, <3>1 DEF AtWork
      <4>3. /\ loose'[x] = Empty => deaths' > 0 \/ \E q \in Proc : out'[q] = LooseFile(x)
            /\ refLock'[x] = Empty => deaths' > 0 \/ \E q \in Proc : out'[q] = LockFile(x)
        <5>1. CASE x = r
          BY <1>0, <2>1, <3>2, <4>1, <5>1 DEF EmptyOK
        <5>2. CASE x # r
          BY <2>1, <3>2, <4>1, <5>2, PathsDiffer DEF EmptyOK
        <5> QED
          BY <5>1, <5>2
      <4>4. ASSUME x \notin clashed
            PROVE  /\ loose'[x] # Empty
                   /\ \A q \in Proc : pc'[q] = "wFill" /\ name'[q] = x => out'[q] = LockFile(x)
                   /\ \A q \in Proc : pc'[q] = "wRename" /\ name'[q] = x => refLock'[x] # Empty
        <5>1. CASE x = r
          <6>1. refLock[x] # Empty
            BY <2>1, <2>2, <4>1, <4>4, <5>1 DEF EmptyOK
          <6>2. \A q \in Proc : ~AtWork(q, x)'
            BY <2>1, <2>2, <4>1, <4>2, <4>4, <5>1 DEF EmptyOK, AtWork
          <6> QED
            BY <4>1, <5>1, <6>1, <6>2 DEF AtWork
        <5>2. CASE x # r
          BY <1>00, <3>1, <3>2, <4>1, <4>4, <5>2, PathsDiffer DEF EmptyOK
        <5> QED
          BY <5>1, <5>2
      <4> QED
        BY <2>1, <4>1, <4>2, <4>3, <4>4 DEF EmptyOK
    <3> QED
      BY <3>3, <3>4 DEF FileInv
  <2> QED
    BY <2>3, <2>4
<1>6. CASE Die(p) \/ WriteFails(p)
  <2>1. /\ UNCHANGED <<loose, refLock, clashed>> /\ deaths' > 0 /\ Closed(p)
        /\ pc'[p] \in {"idle", "unlinkRef", "unlinkNew", "unlinkPack"}
        /\ pc'[p] = "unlinkRef" => pc[p] = "wFill" /\ name'[p] = name[p]
    BY <1>0, <1>6 DEF Die, WriteFails, Return, GoTo, ghosts
  <2>2. \A q \in Proc : out'[q] = IF q = p THEN Nowhere ELSE out[q]
    BY <2>1, OutIs
  <2>3. \A q \in Proc : OutOK(q)'
    <3>1. OutOK(p)' /\ \A q \in Proc \ {p} : Moves(out[q], out'[q])
      BY <2>1, <2>2 DEF OutOK, Moves
    <3> QED
      BY <3>1, OutFrame
  <2>4. ASSUME NEW x \in Ref PROVE EmptyOK(x)'
    <3>1. EmptyOK(x) /\ \A q \in Proc : AtWork(q, x)' => AtWork(q, x)
      BY <1>0, <1>00, <2>1 DEF AtWork
    <3>2. \A q \in Proc : pc'[q] \in {"wFill", "wRename"} => Same(q) /\ q # p
      BY <1>00, <2>1
    <3> QED
      BY <2>1, <2>2, <3>1, <3>2 DEF EmptyOK
  <2> QED
    BY <2>3, <2>4 DEF FileInv
<1> QED
  BY <1>1, <1>2, <1>4, <1>5, <1>6

\* Every step keeps what is known of the unwritten files.
LEMMA FileStep == TypeInv /\ FileInv /\ [Next]_vars => FileInv'
<1> SUFFICES ASSUME TypeInv, FileInv, [Next]_vars PROVE FileInv'
  OBVIOUS
<1>1. ASSUME NEW p \in Writers,
             \/ \E r \in Ref : WriteLock(p, r)
             \/ \E t \in Target : WriteFill(p, t)
             \/ WriteRename(p) \/ UnlinkRefLock(p)
      PROVE  FileInv'
  <2>1. p \in Proc /\ Step(p)
    BY <1>1 DEF Proc, Step
  <2> QED
    BY <1>1, <2>1, StepFrame, WriterSteps
<1>2. ASSUME NEW p \in Proc, Die(p) \/ WriteFails(p) PROVE FileInv'
  <2>1. Step(p) /\ pc[p] # "idle"
    BY <1>2 DEF Step, Die, WriteFails
  <2> QED
    BY <1>2, <2>1, StepFrame, WriterSteps
<1>3. ASSUME NEW p \in Proc,
             \/ \E r \in Ref : DeleteLoose(p, r) \/ ReadLoose(p, r)
             \/ DeleteScan(p) \/ DeleteOpen(p) \/ DeleteLock(p) \/ DeleteFill(p)
             \/ DeleteRename(p) \/ UnlinkNewLock(p)
             \/ PackRead(p) \/ PackList(p) \/ PackReadLoose(p) \/ PackReadPacked(p)
             \/ PackLock(p) \/ PackFill(p) \/ PackRename(p) \/ UnlinkPackLock(p)
             \/ PackPrune(p) \/ PackDone(p) \/ ReadPacked(p)
      PROVE  FileInv'
  <2>1. Step(p)
    BY <1>3 DEF Step
  <2> QED
    BY <1>3, <2>1, StepFrame, OtherSteps
<1>4. CASE UNCHANGED vars
  BY <1>4 DEF vars, files, locals, ghosts, FileInv, OutOK, EmptyOK, AtWork
<1> QED
  BY <1>1, <1>2, <1>3, <1>4 DEF Next, Proc

LEMMA InitFile == Init => FileInv
<1> SUFFICES ASSUME Init PROVE FileInv
  OBVIOUS
<1>1. \A p \in Proc : pc[p] = "idle" /\ out[p] = Nowhere
  BY DEF Init
<1>2. \A r \in Ref : loose[r] # Empty /\ refLock[r] # Empty
  BY RefStoreAssumption DEF Init, Target
<1> QED
  BY <1>1, <1>2 DEF FileInv, OutOK, EmptyOK, AtWork

-----------------------------------------------------------------------------
(* At most one packer, and no deletion so far *)

OnePacker == \A p, q \in Packers : p = q

Packing == {"pList", "pRef", "pPacked", "pFill", "pRename", "unlinkPack", "pPrune"}

\* Nobody is inside delete_ref, and whoever packs is a packer.
PackRole(p) ==
    /\ pc[p] \notin {"dScan", "dOpen", "dLock", "dFill", "dRename", "unlinkNew"}
    /\ pc[p] \in Packing => p \in Packers

\* The packer's new contents have every entry of packed-refs and every name
\* that it will prune, and its file stays at the lock path; once renamed,
\* packed-refs has them.
PackOK(p) ==
    /\ pc[p] \in {"idle", "pList", "wFill", "wRename", "unlinkRef", "rPacked"}
         => prune[p] = {}
    /\ pc[p] \in {"pList", "pRef", "pPacked", "pFill", "pRename"} =>
         \A r \in Ref : packed[r] # NoTarget \/ r \in prune[p] => snap[p][r] # NoTarget
    /\ pc[p] = "pFill" => out[p] = PackLockFile
    /\ pc[p] = "pRename" => packLock = snap[p]
    /\ pc[p] = "pPrune" => \A r \in prune[p] : packed[r] # NoTarget

PackInv == \A p \in Proc : PackRole(p) /\ PackOK(p)

VanishInv == TypeInv /\ FileInv /\ (~deleted => PackInv)

\* The history flag never comes down.
LEMMA DeletedStays == ASSUME [Next]_vars, deleted PROVE deleted'
BY DEF Next, vars, ghosts, WriteLock, WriteFill, WriteRename, UnlinkRefLock, DeleteLoose,
       DeleteScan, DeleteOpen, DeleteLock, DeleteFill, DeleteRename, UnlinkNewLock,
       PackRead, PackList, PackReadLoose, PackReadPacked, PackLock, PackFill, PackRename,
       UnlinkPackLock, PackPrune, PackDone, ReadLoose, ReadPacked, Die, WriteFails

\* A step that leaves packed-refs and its lock file alone.
LEMMA OthersPack ==
    ASSUME PackInv, NEW p \in Proc, LocalFrame(p), UNCHANGED <<packed, packLock>>,
           PackRole(p)', PackOK(p)',
           \A q \in Proc \ {p} : out[q] = PackLockFile => out'[q] = PackLockFile
    PROVE  PackInv'
<1> SUFFICES ASSUME NEW q \in Proc \ {p} PROVE PackRole(q)' /\ PackOK(q)'
  BY DEF PackInv
<1>1. /\ PackRole(q) /\ PackOK(q) /\ pc'[q] = pc[q] /\ prune'[q] = prune[q]
      /\ snap'[q] = snap[q] /\ (out[q] = PackLockFile => out'[q] = PackLockFile)
  BY DEF PackInv, LocalFrame
<1> QED
  BY <1>1 DEF PackRole, PackOK

\* A step of the packer.
LEMMA PackerPacks ==
    ASSUME OnePacker, PackInv, NEW p \in Packers, LocalFrame(p), PackRole(p)', PackOK(p)'
    PROVE  PackInv'
<1> SUFFICES ASSUME NEW q \in Proc \ {p} PROVE PackRole(q)' /\ PackOK(q)'
  BY DEF PackInv
<1>1. p \in Proc
  BY DEF Proc
<1>2. /\ PackRole(q) /\ PackOK(q) /\ pc'[q] = pc[q] /\ prune'[q] = prune[q]
  BY <1>1 DEF PackInv, LocalFrame
<1>3. pc[q] \notin Packing
  BY <1>2 DEF PackRole, OnePacker
<1> QED
  BY <1>2, <1>3 DEF PackRole, PackOK, Packing

\* What one step keeps and promises while nobody deletes and one process packs.
LEMMA VanishStep ==
    ASSUME OnePacker, VanishInv, TypeInv', [Next]_vars, ~deleted'
    PROVE  /\ PackInv'
           /\ \A r \in Ref : Resolved(r) # NoTarget => Resolved(r)' # NoTarget
<1> PackInv /\ TypeInv
  BY DeletedStays DEF VanishInv
<1> USE RefStoreAssumption DEF ghosts
<1> DEFINE Keep == \A r \in Ref : Resolved(r) # NoTarget
                                    => Resolved(r)' # NoTarget
<1> DEFINE Goal == PackInv' /\ Keep
<1>0. /\ pc \in [Proc -> PC] /\ prune \in [Proc -> SUBSET Ref]
      /\ snap \in [Proc -> Packed] /\ todo \in [Proc -> SUBSET Ref]
      /\ loose \in [Ref -> Content]
      /\ packed \in [Ref -> Id \cup {NoTarget}]
      /\ \A q \in Proc : PackRole(q) /\ PackOK(q)
      /\ \A t \in Target : t # NoTarget
  BY DEF TypeInv, TypeOK, Packed, PackInv, Target
<1>00. UNCHANGED <<loose, packed>> => Keep
  BY DEF Resolved
<1>1. ASSUME NEW p \in Proc, LocalFrame(p), UNCHANGED <<packed, packLock>>, prune'[p] = {},
             pc'[p] \in {"idle", "wFill", "wRename", "unlinkRef", "rPacked"},
             \A q \in Proc \ {p} : out[q] = PackLockFile => out'[q] = PackLockFile
      PROVE  PackInv'
  <2>1. PackRole(p)' /\ PackOK(p)'
    BY <1>1 DEF PackRole, PackOK, Packing
  <2> QED
    BY <1>1, <2>1, OthersPack
<1>2. ASSUME NEW p \in Proc, Return(p) PROVE pc'[p] = "idle" /\ prune'[p] = {}
  BY <1>0, <1>2 DEF Return, GoTo
<1>3. ASSUME NEW p \in Writers, NEW r \in Ref, WriteLock(p, r) PROVE Goal
  <2>1. p \in Proc /\ Step(p)
    BY <1>3 DEF Proc, Step
  <2>2. /\ pc[p] = "idle" /\ pc'[p] \in {"wFill", "unlinkRef"} /\ prune' = prune
        /\ UNCHANGED <<loose, packed, packLock>>
        /\ Opened(p, LockFile(r)) \/ out' = out
    BY <1>0, <1>3, <2>1 DEF WriteLock, GoTo
  <2>3. \A q \in Proc \ {p} : out'[q] = out[q]
    BY <2>1, <2>2, OutIs
  <2>4. prune'[p] = {}
    BY <1>0, <2>1, <2>2 DEF PackOK
  <2> QED
    BY <1>1, <1>00, <2>1, <2>2, <2>3, <2>4, StepFrame
<1>4. ASSUME NEW p \in Writers, NEW t \in Target, WriteFill(p, t) PROVE Goal
  <2>1. p \in Proc /\ Step(p)
    BY <1>4 DEF Proc, Step
  <2>2. /\ pc[p] = "wFill" /\ pc'[p] = "wRename" /\ prune' = prune
        /\ UNCHANGED <<packed, packLock>> /\ Closed(p)
        /\ loose' = [loose EXCEPT ![name[p]] = t] \/ loose' = loose
    BY <1>0, <1>4, <2>1 DEF WriteFill, GoTo
  <2>3. \A q \in Proc \ {p} : out'[q] = out[q]
    BY <2>1, <2>2, OutIs
  <2>4. prune'[p] = {}
    BY <1>0, <2>1, <2>2 DEF PackOK
  <2>5. Keep
    BY <1>0, <2>2 DEF Resolved
  <2> QED
    BY <1>1, <2>1, <2>2, <2>3, <2>4, <2>5, StepFrame
<1>5. ASSUME NEW p \in Writers, WriteRename(p) PROVE Goal
  <2>1. p \in Proc /\ Step(p) /\ name[p] \in Ref /\ pc[p] = "wRename"
    BY <1>5 DEF Proc, Step, WriteRename, TypeInv, NameInv
  <2>2. /\ UNCHANGED <<packed, packLock>>
        /\ Renamed(LockFile(name[p]), LooseFile(name[p])) \/ out' = out
    BY <1>5 DEF WriteRename
  <2>3. \A q \in Proc \ {p} : out[q] = PackLockFile => out'[q] = PackLockFile
    <3>1. /\ LockFile(name[p]) # LooseFile(name[p])
          /\ PackLockFile \notin {LockFile(name[p]), LooseFile(name[p])}
      BY PathsDiffer
    <3> QED
      BY <2>1, <2>2, <3>1, OutIs
  <2>4. prune'[p] = {} /\ pc'[p] \in {"idle", "unlinkRef"}
    BY <1>0, <1>2, <1>5, <2>1 DEF WriteRename, PackOK, GoTo
  <2>5. Keep
    BY <1>0, <1>5 DEF WriteRename, Resolved
  <2> QED
    BY <1>1, <2>1, <2>2, <2>3, <2>4, <2>5, StepFrame
<1>6. ASSUME NEW p \in Writers, UnlinkRefLock(p) PROVE Goal
  <2>1. p \in Proc /\ Step(p) /\ name[p] \in Ref
    BY <1>6 DEF Proc, Step, UnlinkRefLock, TypeInv, NameInv
  <2>2. UNCHANGED <<loose, packed, packLock>> /\ Unlinked(LockFile(name[p])) /\ Return(p)
    BY <1>6 DEF UnlinkRefLock
  <2>3. \A q \in Proc \ {p} : out[q] = PackLockFile => out'[q] = PackLockFile
    <3>1. /\ LockFile(name[p]) # LooseFile(name[p])
          /\ PackLockFile \notin {LockFile(name[p]), LooseFile(name[p])}
      BY PathsDiffer
    <3> QED
      BY <2>1, <2>2, <3>1, OutIs
  <2> QED
    BY <1>1, <1>2, <1>00, <2>1, <2>2, <2>3, StepFrame
<1>7. ASSUME NEW p \in Packers, PackRead(p) \/ PackList(p) PROVE Goal
  <2>1. p \in Proc /\ Step(p)
    BY <1>7 DEF Proc, Step
  <2>2. /\ UNCHANGED <<loose, packed>> /\ prune' = prune
        /\ \/ pc[p] = "idle" /\ pc'[p] = "pList" /\ snap'[p] = packed
           \/ pc[p] = "pList" /\ pc'[p] = "pRef" /\ snap'[p] = snap[p]
    BY <1>0, <1>7, <2>1 DEF PackRead, PackList, GoTo, files
  <2>3. PackRole(p)' /\ PackOK(p)'
    BY <1>0, <2>1, <2>2 DEF PackRole, PackOK
  <2> QED
    BY <1>00, <2>1, <2>2, <2>3, StepFrame, PackerPacks
<1>8. ASSUME NEW p \in Packers, NEW r \in Ref, NEW t \in Target,
             PackEntry(p, r, t)
      PROVE  /\ \A x \in Ref : snap[p][x] # NoTarget => snap'[p][x] # NoTarget
             /\ \A x \in prune'[p] : x \in prune[p] \/ snap'[p][x] # NoTarget
  <2>1. p \in Proc
    BY DEF Proc
  <2>2. CASE t \in Id
    <3>1. snap' = [snap EXCEPT ![p] = [snap[p] EXCEPT ![r] = t]]
          /\ prune' = [prune EXCEPT ![p] = prune[p] \cup {r}]
      BY <1>8, <2>2 DEF PackEntry
    <3>2. snap[p] \in [Ref -> Id \cup {NoTarget}] /\ t # NoTarget
      BY <1>0, <2>1, <2>2 DEF Packed
    <3>3. \A x \in Ref : snap'[p][x] = IF x = r THEN t ELSE snap[p][x]
      BY <1>0, <2>1, <3>1, <3>2
    <3> QED
      BY <1>0, <2>1, <3>1, <3>2, <3>3
  <2>3. CASE t \notin Id
    BY <1>8, <2>3 DEF PackEntry
  <2> QED
    BY <2>2, <2>3
<1>9. ASSUME NEW p \in Packers, pc[p] \in Packing, Step(p), Return(p),
             UNCHANGED <<loose, packed>>
      PROVE  Goal
  <2>1. p \in Proc /\ pc'[p] = "idle" /\ prune'[p] = {}
    BY <1>2, <1>9 DEF Proc
  <2>2. PackRole(p)' /\ PackOK(p)'
    BY <2>1 DEF PackRole, PackOK
  <2> QED
    BY <1>9, <1>00, <2>1, <2>2, StepFrame, PackerPacks
<1>10. ASSUME NEW p \in Packers, PackReadLoose(p) PROVE Goal
  <2>1. p \in Proc /\ Step(p) /\ pc[p] = "pRef" /\ UNCHANGED <<loose, packed>>
    BY <1>10 DEF Proc, Step, PackReadLoose, files
  <2>2. PICK r \in todo[p] : EntryRead(p, r)
    BY <1>10, <2>1, ReadsEntry
  <2>3. r \in Ref
    BY <1>0, <2>1
  <2>4. CASE loose[r] \in Target /\ PackEntry(p, r, loose[r]) /\ UNCHANGED <<pc, name>>
    <3>1. /\ \A x \in Ref : snap[p][x] # NoTarget => snap'[p][x] # NoTarget
          /\ \A x \in prune'[p] : x \in prune[p] \/ snap'[p][x] # NoTarget
      BY <1>8, <2>3, <2>4
    <3>2. PackRole(p)' /\ PackOK(p)'
      BY <1>0, <2>1, <2>4, <3>1 DEF PackRole, PackOK
    <3> QED
      BY <1>00, <2>1, <3>2, StepFrame, PackerPacks
  <2>5. CASE Return(p)
    BY <1>9, <2>1, <2>5 DEF Packing
  <2>6. CASE GoTo(p, "pPacked") /\ UNCHANGED <<snap, todo, prune>>
    <3>1. PackRole(p)' /\ PackOK(p)'
      BY <1>0, <2>1, <2>6 DEF PackRole, PackOK, GoTo
    <3> QED
      BY <1>00, <2>1, <3>1, StepFrame, PackerPacks
  <2> QED
    BY <2>2, <2>4, <2>5, <2>6 DEF EntryRead
<1>11. ASSUME NEW p \in Packers, PackReadPacked(p) PROVE Goal
  <2>1. /\ p \in Proc /\ Step(p) /\ name[p] \in Ref /\ pc[p] = "pPacked"
        /\ UNCHANGED <<loose, packed>>
    BY <1>11 DEF Proc, Step, PackReadPacked, TypeInv, NameInv, files
  <2>2. CASE packed[name[p]] # NoTarget
    <3>1. /\ PackEntry(p, name[p], packed[name[p]]) /\ GoTo(p, "pRef")
          /\ packed[name[p]] \in Target
      BY <1>0, <1>11, <2>1, <2>2 DEF PackReadPacked, Target
    <3>2. /\ \A x \in Ref : snap[p][x] # NoTarget => snap'[p][x] # NoTarget
          /\ \A x \in prune'[p] : x \in prune[p] \/ snap'[p][x] # NoTarget
      BY <1>8, <2>1, <3>1
    <3>3. PackRole(p)' /\ PackOK(p)'
      BY <1>0, <2>1, <3>1, <3>2 DEF PackRole, PackOK, GoTo
    <3> QED
      BY <1>00, <2>1, <3>3, StepFrame, PackerPacks
  <2>3. CASE packed[name[p]] = NoTarget
    BY <1>9, <1>11, <2>1, <2>3 DEF PackReadPacked, Packing
  <2> QED
    BY <2>2, <2>3
<1>12. ASSUME NEW p \in Packers, PackLock(p) PROVE Goal
  <2>1. p \in Proc /\ Step(p) /\ pc[p] = "pRef" /\ UNCHANGED <<loose, packed, snap, prune>>
    BY <1>12 DEF Proc, Step, PackLock
  <2>2. \/ pc'[p] = "pFill" /\ Opened(p, PackLockFile)
        \/ pc'[p] = "unlinkPack"
    BY <1>0, <1>12, <2>1 DEF PackLock, GoTo
  <2>3. pc'[p] = "pFill" => out'[p] = PackLockFile
    BY <2>1, <2>2, OutIs
  <2>4. PackRole(p)' /\ PackOK(p)'
    BY <1>0, <2>1, <2>2, <2>3 DEF PackRole, PackOK
  <2> QED
    BY <1>00, <2>1, <2>4, StepFrame, PackerPacks
<1>13. ASSUME NEW p \in Packers, PackFill(p) PROVE Goal
  <2>1. /\ p \in Proc /\ Step(p) /\ pc[p] = "pFill" /\ pc'[p] = "pRename"
        /\ UNCHANGED <<loose, snap, prune>>
    BY <1>0, <1>13 DEF Proc, Step, PackFill, GoTo
  <2>2. out[p] = PackLockFile /\ PackLockFile # PackedFile
    BY <1>0, <2>1, PathsDiffer DEF PackOK
  <2>3. packLock' = snap[p] /\ packed' = packed
    BY <1>13, <2>2 DEF PackFill
  <2>4. PackRole(p)' /\ PackOK(p)'
    BY <1>0, <2>1, <2>3 DEF PackRole, PackOK, Packing
  <2> QED
    BY <1>00, <2>1, <2>3, <2>4, StepFrame, PackerPacks
<1>14. ASSUME NEW p \in Packers, PackRename(p) PROVE Goal
  <2>1. p \in Proc /\ Step(p) /\ pc[p] = "pRename" /\ loose' = loose
    BY <1>14 DEF Proc, Step, PackRename
  <2>2. packLock = snap[p] /\ snap[p] # NoFile
    BY <1>0, <2>1 DEF Packed, PackOK
  <2>3. packed' = snap[p] /\ pc'[p] = "pPrune" /\ prune'[p] \subseteq prune[p]
    BY <1>0, <1>14, <2>1, <2>2 DEF PackRename, GoTo
  <2>4. PackRole(p)' /\ PackOK(p)'
    BY <1>0, <2>1, <2>3 DEF PackRole, PackOK, Packing
  <2>5. Keep
    BY <1>0, <2>1, <2>3 DEF PackOK, Resolved
  <2> QED
    BY <2>1, <2>4, <2>5, StepFrame, PackerPacks
<1>15. ASSUME NEW p \in Packers, UnlinkPackLock(p) \/ PackDone(p) PROVE Goal
  <2>1. /\ Step(p) /\ pc[p] \in Packing /\ Return(p) /\ UNCHANGED <<loose, packed>>
    BY <1>15 DEF Step, UnlinkPackLock, PackDone, files, Packing
  <2> QED
    BY <1>9, <2>1
<1>16. ASSUME NEW p \in Packers, PackPrune(p) PROVE Goal
  <2>1. p \in Proc /\ Step(p) /\ pc[p] = "pPrune" /\ pc' = pc /\ packed' = packed
    BY <1>16 DEF Proc, Step, PackPrune
  <2>2. PICK r \in prune[p] : /\ loose' = [loose EXCEPT ![r] = NoTarget]
                              /\ prune' = [prune EXCEPT ![p] = @ \ {r}]
    BY <1>16 DEF PackPrune
  <2>3. packed[r] # NoTarget /\ r \in Ref
    BY <1>0, <2>1 DEF PackOK
  <2>4. PackRole(p)' /\ PackOK(p)'
    BY <1>0, <2>1, <2>2 DEF PackRole, PackOK
  <2>5. Keep
    BY <1>0, <2>1, <2>2, <2>3 DEF Resolved
  <2> QED
    BY <2>1, <2>4, <2>5, StepFrame, PackerPacks
<1>17. ASSUME NEW p \in Readers, (\E r \in Ref : ReadLoose(p, r)) \/ ReadPacked(p) PROVE Goal
  <2>1. /\ p \in Proc /\ Step(p) /\ UNCHANGED <<loose, packed, packLock, out>>
        /\ pc[p] \in {"idle", "rPacked"}
    BY <1>17 DEF Proc, Step, ReadLoose, ReadPacked, files
  <2>2. pc'[p] \in {"idle", "rPacked"} /\ prune'[p] = {}
    BY <1>0, <1>2, <1>17, <2>1 DEF ReadLoose, ReadPacked, GoTo, PackOK
  <2> QED
    BY <1>1, <1>00, <2>1, <2>2, StepFrame
<1>18. ASSUME NEW p \in Proc, Die(p) PROVE Goal
  <2>1. Step(p) /\ UNCHANGED <<loose, packed, packLock>> /\ Closed(p) /\ Return(p)
    BY <1>18 DEF Step, Die
  <2>2. \A q \in Proc \ {p} : out'[q] = out[q]
    BY <2>1, OutIs
  <2> QED
    BY <1>1, <1>2, <1>00, <2>1, <2>2, StepFrame
<1>19. ASSUME NEW p \in Proc, WriteFails(p) PROVE Goal
  <2>1. /\ Step(p) /\ UNCHANGED <<loose, packed, packLock, prune>> /\ Closed(p)
        /\ \/ pc[p] = "wFill" /\ pc'[p] = "unlinkRef"
           \/ pc[p] = "pFill" /\ pc'[p] = "unlinkPack"
    BY <1>0, <1>19 DEF Step, WriteFails, GoTo, PackRole
  <2>2. \A q \in Proc \ {p} : out'[q] = out[q]
    BY <2>1, OutIs
  <2>3. PackRole(p)' /\ PackOK(p)'
    BY <1>0, <2>1 DEF PackRole, PackOK, Packing
  <2> QED
    BY <1>00, <2>1, <2>2, <2>3, StepFrame, OthersPack
<1>20. ASSUME UNCHANGED vars PROVE Goal
  BY <1>20 DEF vars, files, locals, PackInv, PackRole, PackOK, Resolved
<1>21. ASSUME NEW p \in Deleters,
              \/ \E r \in Ref : DeleteLoose(p, r)
              \/ DeleteScan(p) \/ DeleteOpen(p) \/ DeleteLock(p) \/ DeleteFill(p)
              \/ DeleteRename(p) \/ UnlinkNewLock(p)
       PROVE  FALSE
  <2>1. p \in Proc /\ PackRole(p)
    BY <1>0 DEF Proc
  <2> QED
    BY <1>21, <2>1
    DEF PackRole, DeleteLoose, DeleteScan, DeleteOpen, DeleteLock, DeleteFill, DeleteRename,
        UnlinkNewLock
<1> HIDE DEF Goal
<1>22. Goal
  BY <1>3, <1>4, <1>5, <1>6, <1>7, <1>10, <1>11, <1>12, <1>13, <1>14, <1>15, <1>16,
     <1>17, <1>18, <1>19, <1>20, <1>21 DEF Next
<1> QED
  BY <1>22 DEF Goal

\* pack_refs against any number of writers and readers, deaths and failed
\* writes anywhere: until a delete_ref begins, a reference that has a file or a
\* packed entry keeps one as long as one process packs at a time, and it can be
\* read where no two writers were at work at once.
THEOREM PackingNeverLosesRefs ==
    ASSUME OnePacker
    PROVE  Spec => ResolvedNeverVanishes
<1>1. Init => VanishInv
  <2>1. Init => TypeInv /\ FileInv
    BY InitType, InitFile
  <2>2. Init => PackInv
    BY DEF Init, PackInv, PackRole, PackOK, Packing
  <2> QED
    BY <2>1, <2>2 DEF VanishInv
<1>2. VanishInv /\ [Next]_vars => VanishInv'
  BY TypeStep, FileStep, VanishStep DEF VanishInv
<1> DEFINE Keeps == ~deleted' => \A r \in Ref : Resolved(r) # NoTarget =>
                        /\ Resolved(r)' # NoTarget
                        /\ r \notin clashed' => Resolved(r)' \in Target
<1>3. ASSUME VanishInv, VanishInv', [Next]_vars, ~deleted', NEW r \in Ref,
             Resolved(r) # NoTarget
      PROVE  Resolved(r)' # NoTarget /\ (r \notin clashed' => Resolved(r)' \in Target)
  <2>1. Resolved(r)' # NoTarget
    BY <1>3, VanishStep DEF VanishInv
  <2>2. r \notin clashed' => loose'[r] # Empty
    BY <1>3 DEF VanishInv, FileInv, EmptyOK
  <2>3. loose'[r] \in Content /\ packed'[r] \in Id \cup {NoTarget}
    BY <1>3 DEF VanishInv, TypeInv, TypeOK, Packed
  <2> QED
    BY <2>1, <2>2, <2>3 DEF Resolved, Content, Target
<1>4. VanishInv /\ VanishInv' /\ [Next]_vars => [Keeps]_vars
  BY <1>3
<1>5. Spec => [][Keeps]_vars
  BY <1>1, <1>2, <1>4, PTL DEF Spec
<1> QED
  BY <1>5 DEF ResolvedNeverVanishes

-----------------------------------------------------------------------------
(* Only what was written, whoever collides *)

\* Whatever is in a file or in the contents that a process edits was written.
WrittenInv ==
    \A r \in Ref :
        /\ loose[r] \in past[r] \cup {NoTarget, Empty}
        /\ packed[r] \in past[r] \cup {NoTarget}
        /\ packLock # NoFile => packLock[r] \in past[r] \cup {NoTarget}
        /\ newLock # NoFile => newLock[r] \in past[r] \cup {NoTarget}
        /\ \A p \in Proc : snap[p][r] \in past[r] \cup {NoTarget}

SnapWritten == \A p \in Proc, r \in Ref : snap[p][r] \in past[r] \cup {NoTarget}

\* The contents that the others edit stay; those of p are gone.
LEMMA ReturnWritten ==
    ASSUME TypeInv, WrittenInv, NEW p \in Proc, Return(p), past' = past
    PROVE  SnapWritten'
<1>1. \A q \in Proc : snap'[q] = IF q = p THEN EmptyPacked ELSE snap[q]
  BY DEF Return, TypeInv, TypeOK
<1> QED
  BY <1>1 DEF WrittenInv, SnapWritten, EmptyPacked

\* An entry that goes into the new contents was written.
LEMMA EntryWritten ==
    ASSUME TypeInv, WrittenInv, NEW p \in Proc, NEW r \in Ref, NEW t,
           PackEntry(p, r, t), t \in past[r] \cup {NoTarget}, past' = past
    PROVE  SnapWritten'
<1>1. CASE t \in Id
  <2>1. \A q \in Proc \ {p} : snap'[q] = snap[q]
    BY <1>1 DEF PackEntry, TypeInv, TypeOK
  <2>2. snap'[p] = [snap[p] EXCEPT ![r] = t] /\ snap[p] \in [Ref -> Id \cup {NoTarget}]
    BY <1>1 DEF PackEntry, TypeInv, TypeOK, Packed
  <2>3. \A x \in Ref : snap'[p][x] = IF x = r THEN t ELSE snap[p][x]
    BY <2>2
  <2> QED
    BY <2>1, <2>3 DEF WrittenInv, SnapWritten
<1>2. CASE t \notin Id
  BY <1>2 DEF PackEntry, WrittenInv, SnapWritten
<1> QED
  BY <1>1, <1>2

\* A step that changes no reference and no history.
LEMMA FilesWritten ==
    ASSUME WrittenInv, SnapWritten', UNCHANGED <<loose, packed, packLock, newLock, past>>
    PROVE  WrittenInv'
BY DEF WrittenInv, SnapWritten

LEMMA WrittenStep == TypeInv /\ WrittenInv /\ [Next]_vars => WrittenInv'
<1> SUFFICES ASSUME TypeInv, WrittenInv, [Next]_vars PROVE WrittenInv'
  OBVIOUS
<1> USE DEF ghosts, files
<1>0. SnapWritten /\ \A p \in Proc : snap[p] \in [Ref -> Id \cup {NoTarget}]
  BY DEF WrittenInv, SnapWritten, TypeInv, TypeOK, Packed
<1>1. ASSUME NEW p \in Proc, NEW r \in Ref, WriteLock(p, r) PROVE WrittenInv'
  BY <1>1 DEF WriteLock, WrittenInv
<1>18. ASSUME NEW p \in Proc, NEW t \in Target, WriteFill(p, t) PROVE WrittenInv'
  <2>1. name[p] \in Ref
    BY <1>18 DEF WriteFill, TypeInv, NameInv
  <2>2. CASE out[p] = LooseFile(name[p])
    <3>1. /\ \A r \in Ref : loose'[r] = IF r = name[p] THEN t ELSE loose[r]
          /\ \A r \in Ref : past'[r] = past[r] \cup (IF r = name[p] THEN {t} ELSE {})
          /\ UNCHANGED <<packed, packLock, newLock, snap>>
      BY <1>18, <2>1, <2>2 DEF WriteFill, TypeInv, TypeOK
    <3> QED
      BY <3>1 DEF WrittenInv
  <2>3. CASE out[p] # LooseFile(name[p])
    <3>1. UNCHANGED <<loose, past, packed, packLock, newLock, snap>>
      BY <1>18, <2>3 DEF WriteFill
    <3> QED
      BY <3>1 DEF WrittenInv
  <2> QED
    BY <2>2, <2>3
<1>2. ASSUME NEW p \in Proc, WriteRename(p) PROVE WrittenInv'
  <2>1. CASE refLock[name[p]] # NoTarget
    <3>1. name[p] \in Ref
      BY <1>2 DEF WriteRename, TypeInv, NameInv
    <3>2. /\ \A r \in Ref : loose'[r] = IF r = name[p] THEN refLock[r] ELSE loose[r]
          /\ \A r \in Ref : past'[r] = past[r] \cup
                                           (IF r = name[p] THEN {refLock[r]} \ {Empty} ELSE {})
          /\ UNCHANGED <<packed, packLock, newLock>>
      BY <1>2, <2>1, <3>1 DEF WriteRename, TypeInv, TypeOK
    <3>3. \A q \in Proc : snap'[q] \in {snap[q], EmptyPacked}
      BY <1>2, <2>1 DEF WriteRename, Return, TypeInv, TypeOK
    <3> QED
      BY <3>2, <3>3 DEF WrittenInv, EmptyPacked
  <2>2. CASE refLock[name[p]] = NoTarget
    BY <1>2, <2>2 DEF WriteRename, WrittenInv
  <2> QED
    BY <2>1, <2>2
<1>3. ASSUME NEW p \in Proc, UnlinkRefLock(p) PROVE WrittenInv'
  <2>1. SnapWritten'
    BY <1>3, ReturnWritten DEF UnlinkRefLock
  <2> QED
    BY <1>3, <2>1 DEF UnlinkRefLock, WrittenInv, SnapWritten
<1>4. ASSUME NEW p \in Proc, NEW r \in Ref, DeleteLoose(p, r) PROVE WrittenInv'
  BY <1>4 DEF DeleteLoose, WrittenInv, TypeInv, TypeOK
<1>5. ASSUME NEW p \in Proc, DeleteScan(p) \/ PackDone(p) \/ ReadPacked(p) \/ Die(p)
      PROVE  WrittenInv'
  <2>1. UNCHANGED <<loose, packed, packLock, newLock, past>>
    BY <1>5 DEF DeleteScan, PackDone, ReadPacked, Die
  <2>2. SnapWritten'
    BY <1>0, <1>5, <2>1, ReturnWritten
       DEF DeleteScan, PackDone, ReadPacked, Die, SnapWritten
  <2> QED
    BY <2>1, <2>2, FilesWritten
<1>6. ASSUME NEW p \in Proc, DeleteOpen(p) \/ PackRead(p) PROVE WrittenInv'
  <2>1. UNCHANGED <<files, past>> /\ \A q \in Proc : snap'[q] \in {snap[q], packed}
    BY <1>6 DEF DeleteOpen, PackRead, TypeInv, TypeOK
  <2> QED
    BY <2>1, FilesWritten DEF WrittenInv, SnapWritten
<1>7. ASSUME NEW p \in Proc, DeleteLock(p) \/ PackLock(p) PROVE WrittenInv'
  <2>1. /\ UNCHANGED <<loose, packed, past, snap>> /\ newLock' \in {newLock, EmptyPacked}
        /\ packLock' \in {packLock, EmptyPacked}
    BY <1>7 DEF DeleteLock, PackLock
  <2> QED
    BY <2>1 DEF WrittenInv, EmptyPacked
<1>19. ASSUME NEW p \in Proc, DeleteFill(p) PROVE WrittenInv'
  <2>1. \A r \in Ref : Kept(p)[r] \in {snap[p][r], NoTarget}
    BY <1>0 DEF Kept
  <2>2. /\ UNCHANGED <<loose, packLock, past, snap>> /\ newLock' \in {newLock, Kept(p)}
        /\ packed' \in {packed, Kept(p)}
    BY <1>19 DEF DeleteFill
  <2> QED
    BY <2>1, <2>2 DEF WrittenInv
<1>20. ASSUME NEW p \in Proc, PackFill(p) PROVE WrittenInv'
  <2>1. /\ UNCHANGED <<loose, newLock, past, snap>> /\ packLock' \in {packLock, snap[p]}
        /\ packed' \in {packed, snap[p]}
    BY <1>20 DEF PackFill
  <2> QED
    BY <2>1 DEF WrittenInv
<1>21. ASSUME NEW p \in Proc, WriteFails(p) PROVE WrittenInv'
  BY <1>21 DEF WriteFails, WrittenInv
<1>8. ASSUME NEW p \in Proc, DeleteRename(p) PROVE WrittenInv'
  <2>1. CASE newLock # NoFile
    <3>1. SnapWritten'
      BY <1>8, <2>1, ReturnWritten DEF DeleteRename
    <3> QED
      BY <1>8, <2>1, <3>1 DEF DeleteRename, WrittenInv, SnapWritten
  <2>2. CASE newLock = NoFile
    BY <1>8, <2>2 DEF DeleteRename, WrittenInv
  <2> QED
    BY <2>1, <2>2
<1>9. ASSUME NEW p \in Proc, UnlinkNewLock(p) \/ UnlinkPackLock(p) PROVE WrittenInv'
  <2>1. SnapWritten'
    BY <1>9, ReturnWritten DEF UnlinkNewLock, UnlinkPackLock
  <2> QED
    BY <1>9, <2>1 DEF UnlinkNewLock, UnlinkPackLock, WrittenInv, SnapWritten
<1>10. ASSUME NEW p \in Proc, PackList(p) PROVE WrittenInv'
  BY <1>0, <1>10, FilesWritten DEF PackList, SnapWritten
<1>11. ASSUME NEW p \in Proc, PackReadLoose(p) PROVE WrittenInv'
  <2>1. PICK r \in todo[p] : EntryRead(p, r)
    BY <1>11, ReadsEntry
  <2>2. r \in Ref /\ UNCHANGED <<loose, packed, packLock, newLock, past>>
    BY <1>11 DEF PackReadLoose, TypeInv, TypeOK
  <2>3. loose[r] \in Target => loose[r] \in past[r]
    BY <2>2, RefStoreAssumption DEF WrittenInv, Target
  <2>4. SnapWritten'
    BY <1>0, <2>1, <2>2, <2>3, EntryWritten, ReturnWritten DEF EntryRead, SnapWritten
  <2> QED
    BY <2>2, <2>4, FilesWritten
<1>12. ASSUME NEW p \in Proc, PackReadPacked(p) PROVE WrittenInv'
  <2>1. name[p] \in Ref /\ UNCHANGED <<loose, packed, packLock, newLock, past>>
    BY <1>12 DEF PackReadPacked, TypeInv, NameInv
  <2>2. SnapWritten'
    BY <1>12, <2>1, EntryWritten, ReturnWritten DEF PackReadPacked, WrittenInv
  <2> QED
    BY <2>1, <2>2, FilesWritten
<1>14. ASSUME NEW p \in Proc, PackRename(p) PROVE WrittenInv'
  BY <1>14 DEF PackRename, WrittenInv
<1>15. ASSUME NEW p \in Proc, PackPrune(p) PROVE WrittenInv'
  BY <1>15 DEF PackPrune, WrittenInv, TypeInv, TypeOK
<1>16. ASSUME NEW p \in Proc, NEW r \in Ref, ReadLoose(p, r) PROVE WrittenInv'
  BY <1>0, <1>16, FilesWritten DEF ReadLoose, SnapWritten
<1>17. CASE UNCHANGED vars
  BY <1>17 DEF vars, files, locals, WrittenInv
<1> QED
  BY <1>1, <1>2, <1>3, <1>4, <1>5, <1>6, <1>7, <1>8, <1>9, <1>10, <1>11, <1>12,
     <1>14, <1>15, <1>16, <1>17, <1>18, <1>19, <1>20, <1>21 DEF Next, Proc

LEMMA InitWritten == Init => WrittenInv
BY DEF Init, WrittenInv, EmptyPacked

\* No collision of write_ref, delete_ref and pack_refs, with or without deaths,
\* makes a reference hold what was not written to it, for any processes; a loose
\* file with nothing in it is at a name where two writers were at work at once,
\* and its writer is about to fill it unless one has failed or died.
THEOREM RefsHoldWrittenValues == Spec => []OnlyWrittenValues
<1> DEFINE Inv == TypeInv /\ FileInv /\ WrittenInv
<1>1. Init => Inv
  BY InitType, InitFile, InitWritten
<1>2. Inv /\ [Next]_vars => Inv'
  BY TypeStep, FileStep, WrittenStep
<1>3. Inv => OnlyWrittenValues
  <2> SUFFICES ASSUME Inv, NEW r \in Ref
               PROVE  /\ {loose[r], packed[r]} \subseteq past[r] \cup {NoTarget, Empty}
                      /\ loose[r] = Empty =>
                          /\ r \in clashed
                          /\ deaths > 0 \/ \E p \in Writers :
                                              pc[p] = "wFill" /\ out[p] = LooseFile(r)
    BY DEF OnlyWrittenValues
  <2>1. {loose[r], packed[r]} \subseteq past[r] \cup {NoTarget, Empty}
    BY DEF WrittenInv
  <2>2. ASSUME loose[r] = Empty, ~(deaths > 0)
        PROVE  \E p \in Writers : pc[p] = "wFill" /\ out[p] = LooseFile(r)
    <3>1. PICK p \in Proc : out[p] = LooseFile(r)
      BY <2>2 DEF FileInv, EmptyOK
    <3>2. OutOK(p)
      BY DEF FileInv
    <3>3. pc[p] = "wFill" /\ p \in Writers
      BY <3>1, <3>2, PathsDiffer DEF OutOK
    <3> QED
      BY <3>1, <3>3
  <2>3. loose[r] = Empty => r \in clashed
    BY DEF FileInv, EmptyOK
  <2> QED
    BY <2>1, <2>2, <2>3
<1> QED
  BY <1>1, <1>2, <1>3, PTL DEF Spec

-----------------------------------------------------------------------------
(* One process that writes, deletes and packs, and any number of readers *)

Mutators == Writers \cup Deleters \cup Packers
OneMutator == \A p, q \in Mutators : p = q

Deleting == {"dScan", "dOpen", "dLock", "dFill", "dRename", "unlinkNew"}

\* delete_ref has removed the loose file, and its new packed-refs differs from
\* the old one in its own name.
DeleteOK(p) ==
    /\ pc[p] \in Deleting => loose[name[p]] = NoTarget
    /\ pc[p] \in {"dLock", "dFill"} => snap[p] = packed
    /\ pc[p] = "dFill" => out[p] = NewLockFile
    /\ pc[p] = "dRename" => newLock = [packed EXCEPT ![name[p]] = NoTarget]

\* pack_refs has changed an entry of packed-refs only to what the loose file
\* holds, and prunes a loose file only when its entry holds the same.
EntryOK(p) ==
    /\ pc[p] \in {"idle", "pList"} => prune[p] = {}
    /\ pc[p] \in {"pList", "pRef", "pFill", "pRename"} =>
         \A r \in Ref : \/ snap[p][r] = packed[r] /\ r \notin prune[p]
                        \/ snap[p][r] = loose[r] /\ loose[r] # NoTarget
    /\ pc[p] # "pPacked"
    /\ pc[p] = "pRef" => \A r \in todo[p] : loose[r] # NoTarget
    /\ pc[p] = "pFill" => out[p] = PackLockFile
    /\ pc[p] = "pRename" => packLock = snap[p]
    /\ pc[p] = "pPrune" => \A r \in prune[p] : packed[r] = loose[r]

\* Readers only read.
RoleOK(p) == pc[p] \notin {"idle", "rPacked"} => p \in Mutators

StepOK(p) == RoleOK(p) /\ DeleteOK(p) /\ EntryOK(p)

SoleInv ==
    /\ WrittenInv /\ FileInv /\ clashed = {}
    /\ \A p \in Proc : StepOK(p)
    /\ ReadsAreAtomic

\* While the one process that changes files is at a step, the others rest or
\* read.
LEMMA OthersStay ==
    ASSUME SoleInv, NEW p \in Proc, LocalFrame(p), StepOK(p)',
           \/ /\ UNCHANGED <<loose, packed, packLock, newLock>>
              /\ \A q \in Proc \ {p} : out'[q] = out[q]
           \/ OneMutator /\ p \in Mutators
    PROVE  \A q \in Proc : StepOK(q)'
<1> SUFFICES ASSUME NEW q \in Proc \ {p} PROVE StepOK(q)'
  OBVIOUS
<1>1. StepOK(q)
  BY DEF SoleInv
<1>2. CASE /\ UNCHANGED <<loose, packed, packLock, newLock>>
           /\ \A x \in Proc \ {p} : out'[x] = out[x]
  BY <1>1, <1>2 DEF LocalFrame, StepOK, RoleOK, DeleteOK, EntryOK
<1>3. CASE OneMutator /\ p \in Mutators
  <2>1. pc[q] \in {"idle", "rPacked"}
    BY <1>1, <1>3 DEF StepOK, RoleOK, OneMutator
  <2> QED
    BY <1>1, <2>1 DEF LocalFrame, StepOK, RoleOK, DeleteOK, EntryOK, Deleting
<1> QED
  BY <1>2, <1>3

\* The end of an operation.
LEMMA ReturnOK ==
    ASSUME TypeInv, NEW p \in Proc, Return(p)
    PROVE  LocalFrame(p) /\ StepOK(p)' /\ pc'[p] = "idle"
<1>1. pc'[p] = "idle" /\ prune'[p] = {} /\ LocalFrame(p)
  BY DEF Return, GoTo, TypeInv, TypeOK, LocalFrame
<1> QED
  BY <1>1 DEF StepOK, RoleOK, DeleteOK, EntryOK, Deleting

\* A step after which packed-refs is the same.
LEMMA ReadsStay ==
    ASSUME ReadsAreAtomic, NEW p \in Proc, LocalFrame(p), pc'[p] # "rPacked",
           packed' = packed, \A q \in Proc \ {p} : saw[q] \subseteq saw'[q]
    PROVE  ReadsAreAtomic'
<1> SUFFICES ASSUME NEW q \in Readers, pc'[q] = "rPacked"
             PROVE  packed'[name'[q]] \in saw'[q]
  BY DEF ReadsAreAtomic
<1>1. q \in Proc \ {p}
  BY DEF Proc
<1> QED
  BY <1>1 DEF ReadsAreAtomic, LocalFrame

\* A step after which a packed entry is what it was, or what its name resolves
\* to by now.
LEMMA ReadsObserve ==
    ASSUME TypeInv, ReadsAreAtomic, NEW p \in Proc, LocalFrame(p), pc'[p] # "rPacked",
           Observe, \A r \in Ref : packed'[r] = packed[r] \/ packed'[r] = Resolved(r)'
    PROVE  ReadsAreAtomic'
<1> SUFFICES ASSUME NEW q \in Readers, pc'[q] = "rPacked"
             PROVE  packed'[name'[q]] \in saw'[q]
  BY DEF ReadsAreAtomic
<1>1. q \in Proc \ {p}
  BY DEF Proc
<1>2. /\ pc[q] = "rPacked" /\ name'[q] = name[q] /\ name[q] \in Ref
      /\ packed[name[q]] \in saw[q]
  BY <1>1 DEF LocalFrame, TypeInv, NameInv, ReadsAreAtomic
<1>3. saw'[q] = saw[q] \cup {Resolved(name[q])'}
  BY <1>1, <1>2 DEF Observe
<1> QED
  BY <1>2, <1>3 DEF Resolved

\* The others' reads only add to what they saw.
LEMMA ObserveGrows ==
    ASSUME TypeInv, Observe PROVE \A q \in Proc : saw[q] \subseteq saw'[q]
BY DEF Observe, TypeInv, TypeOK

LEMMA SoleStep ==
    ASSUME OneMutator, TypeInv, SoleInv, [Next]_vars
    PROVE  SoleInv'
<1> DEFINE Goal == (\A q \in Proc : StepOK(q)') /\ ReadsAreAtomic'
<1> USE RefStoreAssumption DEF ghosts
<1>0. /\ pc \in [Proc -> PC] /\ name \in [Proc -> Ref \cup {NoRef}]
      /\ prune \in [Proc -> SUBSET Ref] /\ todo \in [Proc -> SUBSET Ref]
      /\ snap \in [Proc -> Packed] /\ packed \in [Ref -> Id \cup {NoTarget}]
      /\ loose \in [Ref -> Content]
      /\ saw \in [Proc -> SUBSET Content]
      /\ ReadsAreAtomic /\ \A q \in Proc : StepOK(q)
  BY DEF TypeInv, TypeOK, Packed, SoleInv
<1>00. /\ \A r \in Ref : loose[r] # Empty
       /\ NewLockFile # PackedFile /\ PackLockFile # PackedFile
  BY PathsDiffer DEF SoleInv, FileInv, EmptyOK
<1>1. ASSUME NEW p \in Writers, NEW r \in Ref, WriteLock(p, r) PROVE Goal
  <2>1. p \in Proc /\ p \in Mutators
    BY DEF Proc, Mutators
  <2>2. LocalFrame(p) /\ pc'[p] \in {"wFill", "unlinkRef"} /\ UNCHANGED <<packed, saw>>
    BY <1>0, <1>1, <2>1 DEF WriteLock, GoTo, LocalFrame
  <2>3. StepOK(p)'
    BY <2>1, <2>2 DEF StepOK, RoleOK, DeleteOK, EntryOK, Deleting
  <2> QED
    BY <1>0, <2>1, <2>2, <2>3, OthersStay, ReadsStay
<1>20. ASSUME NEW p \in Writers, NEW t \in Target, WriteFill(p, t) PROVE Goal
  <2>1. p \in Proc /\ p \in Mutators
    BY DEF Proc, Mutators
  <2>2. LocalFrame(p) /\ pc'[p] = "wRename" /\ packed' = packed
    BY <1>0, <1>20, <2>1 DEF WriteFill, GoTo, LocalFrame
  <2>3. StepOK(p)'
    BY <2>1, <2>2 DEF StepOK, RoleOK, DeleteOK, EntryOK, Deleting
  <2>4. \A q \in Proc : saw[q] \subseteq saw'[q]
    BY <1>20, ObserveGrows DEF WriteFill
  <2> QED
    BY <1>0, <2>1, <2>2, <2>3, <2>4, OthersStay, ReadsStay
<1>2. ASSUME NEW p \in Writers, WriteRename(p) PROVE Goal
  <2>1. p \in Proc /\ p \in Mutators
    BY DEF Proc, Mutators
  <2>2. LocalFrame(p) /\ StepOK(p)' /\ pc'[p] # "rPacked"
    <3>1. CASE Return(p)
      BY <2>1, <3>1, ReturnOK
    <3>2. CASE GoTo(p, "unlinkRef") /\ UNCHANGED <<name, snap, todo, prune>>
      <4>1. LocalFrame(p) /\ pc'[p] = "unlinkRef"
        BY <1>0, <2>1, <3>2 DEF GoTo, LocalFrame
      <4> QED
        BY <2>1, <4>1 DEF StepOK, RoleOK, DeleteOK, EntryOK, Deleting
    <3> QED
      BY <1>2, <3>1, <3>2 DEF WriteRename
  <2>3. packed' = packed /\ \A q \in Proc : saw[q] \subseteq saw'[q]
    BY <1>2, ObserveGrows DEF WriteRename
  <2> QED
    BY <1>0, <2>1, <2>2, <2>3, OthersStay, ReadsStay
<1>3. ASSUME NEW p \in Mutators, UnlinkRefLock(p) \/ UnlinkNewLock(p) \/ UnlinkPackLock(p)
      PROVE  Goal
  <2>1. p \in Proc
    BY DEF Proc, Mutators
  <2>2. LocalFrame(p) /\ StepOK(p)' /\ pc'[p] = "idle"
    BY <1>3, <2>1, ReturnOK DEF UnlinkRefLock, UnlinkNewLock, UnlinkPackLock
  <2>3. UNCHANGED <<packed, saw>>
    BY <1>3 DEF UnlinkRefLock, UnlinkNewLock, UnlinkPackLock
  <2> QED
    BY <1>0, <2>1, <2>2, <2>3, OthersStay, ReadsStay
<1>4. ASSUME NEW p \in Deleters, NEW r \in Ref, DeleteLoose(p, r) PROVE Goal
  <2>1. p \in Proc /\ p \in Mutators
    BY DEF Proc, Mutators
  <2>2. /\ LocalFrame(p) /\ pc'[p] = "dScan" /\ name'[p] = r /\ loose'[r] = NoTarget
        /\ packed' = packed
    BY <1>0, <1>4, <2>1 DEF DeleteLoose, GoTo, LocalFrame
  <2>3. StepOK(p)'
    BY <2>1, <2>2 DEF StepOK, RoleOK, DeleteOK, EntryOK, Deleting
  <2>4. \A q \in Proc : saw[q] \subseteq saw'[q]
    BY <1>4, ObserveGrows DEF DeleteLoose
  <2> QED
    BY <1>0, <2>1, <2>2, <2>3, <2>4, OthersStay, ReadsStay
<1>5. ASSUME NEW p \in Mutators, DeleteScan(p) \/ PackDone(p) PROVE Goal
  <2>1. p \in Proc
    BY DEF Proc, Mutators
  <2>2. UNCHANGED files /\ UNCHANGED <<packed, saw>>
    BY <1>5 DEF DeleteScan, PackDone, files
  <2>3. CASE Return(p)
    BY <1>0, <2>1, <2>2, <2>3, ReturnOK, OthersStay, ReadsStay
  <2>4. CASE pc[p] = "dScan" /\ GoTo(p, "dOpen") /\ UNCHANGED <<name, snap, todo, prune>>
    <3>1. LocalFrame(p) /\ pc'[p] = "dOpen"
      BY <1>0, <2>1, <2>4 DEF GoTo, LocalFrame
    <3>2. StepOK(p)'
      BY <1>0, <2>1, <2>2, <2>4, <3>1
         DEF StepOK, RoleOK, DeleteOK, EntryOK, Deleting, files
    <3> QED
      BY <1>0, <2>1, <2>2, <3>1, <3>2, OthersStay, ReadsStay
  <2> QED
    BY <1>5, <2>3, <2>4 DEF DeleteScan, PackDone
<1>6. ASSUME NEW p \in Deleters, DeleteOpen(p) PROVE Goal
  <2>1. p \in Proc /\ p \in Mutators
    BY DEF Proc, Mutators
  <2>2. /\ LocalFrame(p) /\ pc[p] = "dOpen" /\ pc'[p] = "dLock" /\ name' = name
        /\ snap'[p] = packed /\ UNCHANGED files /\ UNCHANGED <<packed, loose, saw>>
    BY <1>0, <1>6, <2>1 DEF DeleteOpen, GoTo, LocalFrame, files
  <2>3. StepOK(p)'
    BY <1>0, <2>1, <2>2 DEF StepOK, RoleOK, DeleteOK, EntryOK, Deleting
  <2> QED
    BY <1>0, <2>1, <2>2, <2>3, OthersStay, ReadsStay
<1>7. ASSUME NEW p \in Deleters, DeleteLock(p) PROVE Goal
  <2>1. p \in Proc /\ p \in Mutators
    BY DEF Proc, Mutators
  <2>2. /\ LocalFrame(p) /\ pc[p] = "dLock" /\ UNCHANGED <<packed, loose, saw, name, snap>>
        /\ \/ pc'[p] = "unlinkNew"
           \/ pc'[p] = "dFill" /\ Opened(p, NewLockFile)
    BY <1>0, <1>7, <2>1 DEF DeleteLock, GoTo, LocalFrame
  <2>3. pc'[p] = "dFill" => out'[p] = NewLockFile
    BY <2>1, <2>2, OutIs
  <2>4. StepOK(p)'
    BY <1>0, <2>1, <2>2, <2>3 DEF StepOK, RoleOK, DeleteOK, EntryOK, Deleting
  <2> QED
    BY <1>0, <2>1, <2>2, <2>4, OthersStay, ReadsStay
<1>21. ASSUME NEW p \in Deleters, DeleteFill(p) PROVE Goal
  <2>1. p \in Proc /\ p \in Mutators /\ pc[p] = "dFill"
    BY <1>21 DEF Proc, Mutators, DeleteFill
  <2>2. out[p] = NewLockFile /\ snap[p] = packed
    BY <1>0, <2>1 DEF StepOK, DeleteOK
  <2>3. /\ LocalFrame(p) /\ pc'[p] = "dRename" /\ UNCHANGED <<packed, loose, name>>
        /\ newLock' = [packed EXCEPT ![name[p]] = NoTarget]
    BY <1>0, <1>00, <1>21, <2>1, <2>2 DEF DeleteFill, Kept, GoTo, LocalFrame
  <2>4. StepOK(p)'
    BY <1>0, <2>1, <2>3 DEF StepOK, RoleOK, DeleteOK, EntryOK, Deleting
  <2>5. \A q \in Proc : saw[q] \subseteq saw'[q]
    BY <1>21, ObserveGrows DEF DeleteFill
  <2> QED
    BY <1>0, <2>1, <2>3, <2>4, <2>5, OthersStay, ReadsStay
<1>8. ASSUME NEW p \in Deleters, DeleteRename(p) PROVE Goal
  <2>1. p \in Proc /\ p \in Mutators
    BY DEF Proc, Mutators
  <2>2. /\ pc[p] = "dRename" /\ loose' = loose /\ loose[name[p]] = NoTarget
        /\ newLock = [packed EXCEPT ![name[p]] = NoTarget] /\ name[p] \in Ref
    BY <1>0, <1>8, <2>1
       DEF DeleteRename, StepOK, DeleteOK, Deleting, TypeInv, NameInv
  <2>3. /\ \A r \in Ref : newLock[r] = IF r = name[p] THEN NoTarget ELSE packed[r]
        /\ newLock \in Packed
    BY <1>0, <2>2 DEF Packed
  <2>4. packed' = newLock /\ Return(p) /\ Observe
    BY <1>8, <2>3 DEF DeleteRename, Packed
  <2>5. \A r \in Ref : packed'[r] = packed[r] \/ packed'[r] = Resolved(r)'
    BY <2>2, <2>3, <2>4 DEF Resolved
  <2>6. LocalFrame(p) /\ StepOK(p)' /\ pc'[p] = "idle"
    BY <2>1, <2>4, ReturnOK
  <2> QED
    BY <1>0, <2>1, <2>4, <2>5, <2>6, OthersStay, ReadsObserve
<1>9. ASSUME NEW p \in Packers, PackRead(p) PROVE Goal
  <2>1. p \in Proc /\ p \in Mutators
    BY DEF Proc, Mutators
  <2>2. /\ LocalFrame(p) /\ pc[p] = "idle" /\ pc'[p] = "pList" /\ prune' = prune
        /\ snap'[p] = packed /\ UNCHANGED files /\ UNCHANGED <<packed, saw>>
    BY <1>0, <1>9, <2>1 DEF PackRead, GoTo, LocalFrame, files
  <2>3. StepOK(p)'
    BY <1>0, <2>1, <2>2 DEF StepOK, RoleOK, DeleteOK, EntryOK, Deleting
  <2> QED
    BY <1>0, <2>1, <2>2, <2>3, OthersStay, ReadsStay
<1>10. ASSUME NEW p \in Packers, PackList(p) PROVE Goal
  <2>1. p \in Proc /\ p \in Mutators
    BY DEF Proc, Mutators
  <2>2. /\ LocalFrame(p) /\ pc[p] = "pList" /\ pc'[p] = "pRef" /\ prune' = prune
        /\ snap' = snap /\ \A r \in todo'[p] : loose[r] # NoTarget
        /\ UNCHANGED files /\ UNCHANGED <<packed, loose, saw>>
    BY <1>0, <1>10, <2>1 DEF PackList, GoTo, LocalFrame, files
  <2>3. StepOK(p)'
    BY <1>0, <2>1, <2>2 DEF StepOK, RoleOK, DeleteOK, EntryOK, Deleting
  <2> QED
    BY <1>0, <2>1, <2>2, <2>3, OthersStay, ReadsStay
<1>11. ASSUME NEW p \in Packers, PackReadLoose(p) PROVE Goal
  <2>1. p \in Proc /\ p \in Mutators /\ pc[p] = "pRef"
    BY <1>11 DEF Proc, Mutators, PackReadLoose
  <2>2. PICK r \in todo[p] : EntryRead(p, r)
    BY <1>11, <2>1, ReadsEntry
  <2>3. r \in Ref /\ loose[r] # NoTarget
    BY <1>0, <2>1 DEF StepOK, EntryOK
  <2>4. /\ PackEntry(p, r, loose[r]) /\ UNCHANGED <<pc, name>> /\ UNCHANGED files
        /\ UNCHANGED <<packed, loose, saw>>
    BY <1>00, <1>11, <2>2, <2>3 DEF PackReadLoose, EntryRead, files
  <2>5. LocalFrame(p) /\ todo'[p] = todo[p] \ {r}
    BY <1>0, <2>1, <2>4 DEF PackEntry, LocalFrame
  <2>6. \A x \in Ref :
            /\ snap'[p][x] = snap[p][x] \/ (x = r /\ snap'[p][x] = loose[x])
            /\ x \in prune'[p] => x \in prune[p] \/ snap'[p][x] = loose[x]
    <3>1. snap[p] \in [Ref -> Id \cup {NoTarget}]
      BY <1>0, <2>1 DEF Packed
    <3> QED
      BY <1>0, <2>1, <2>3, <2>4, <3>1 DEF PackEntry
  <2>7. StepOK(p)'
    <3>1. \A x \in Ref : \/ snap'[p][x] = packed'[x] /\ x \notin prune'[p]
                         \/ snap'[p][x] = loose'[x] /\ loose'[x] # NoTarget
      <4> SUFFICES ASSUME NEW x \in Ref
                   PROVE  \/ snap'[p][x] = packed[x] /\ x \notin prune'[p]
                          \/ snap'[p][x] = loose[x] /\ loose[x] # NoTarget
        BY <2>4
      <4>1. \/ snap[p][x] = packed[x] /\ x \notin prune[p]
            \/ snap[p][x] = loose[x] /\ loose[x] # NoTarget
        BY <1>0, <2>1 DEF StepOK, EntryOK
      <4>2. CASE x = r
        BY <1>0, <2>1, <2>3, <2>4, <2>6, <4>1, <4>2 DEF PackEntry
      <4>3. CASE x # r
        BY <1>0, <2>1, <2>4, <2>6, <4>1, <4>3 DEF PackEntry
      <4> QED
        BY <4>2, <4>3
    <3> QED
      BY <1>0, <2>1, <2>4, <2>5, <3>1 DEF StepOK, RoleOK, DeleteOK, EntryOK, Deleting
  <2> QED
    BY <1>0, <2>1, <2>4, <2>5, <2>7, OthersStay, ReadsStay
<1>12. ASSUME NEW p \in Packers, PackReadPacked(p) PROVE Goal
  BY <1>0, <1>12 DEF PackReadPacked, Proc, StepOK, EntryOK
<1>13. ASSUME NEW p \in Packers, PackLock(p) PROVE Goal
  <2>1. p \in Proc /\ p \in Mutators
    BY DEF Proc, Mutators
  <2>2. /\ LocalFrame(p) /\ pc[p] = "pRef" /\ UNCHANGED <<packed, loose, saw, snap, prune>>
        /\ pc'[p] = "unlinkPack" \/ (pc'[p] = "pFill" /\ Opened(p, PackLockFile))
    BY <1>0, <1>13, <2>1 DEF PackLock, GoTo, LocalFrame
  <2>3. pc'[p] = "pFill" => out'[p] = PackLockFile
    BY <2>1, <2>2, OutIs
  <2>4. StepOK(p)'
    BY <1>0, <2>1, <2>2, <2>3 DEF StepOK, RoleOK, DeleteOK, EntryOK, Deleting
  <2> QED
    BY <1>0, <2>1, <2>2, <2>4, OthersStay, ReadsStay
<1>22. ASSUME NEW p \in Packers, PackFill(p) PROVE Goal
  <2>1. p \in Proc /\ p \in Mutators /\ pc[p] = "pFill"
    BY <1>22 DEF Proc, Mutators, PackFill
  <2>2. out[p] = PackLockFile
    BY <1>0, <2>1 DEF StepOK, EntryOK
  <2>3. /\ LocalFrame(p) /\ pc'[p] = "pRename" /\ UNCHANGED <<packed, loose, snap, prune>>
        /\ packLock' = snap[p]
    BY <1>0, <1>00, <1>22, <2>1, <2>2 DEF PackFill, GoTo, LocalFrame
  <2>4. StepOK(p)'
    BY <1>0, <2>1, <2>3 DEF StepOK, RoleOK, DeleteOK, EntryOK, Deleting
  <2>5. \A q \in Proc : saw[q] \subseteq saw'[q]
    BY <1>22, ObserveGrows DEF PackFill
  <2> QED
    BY <1>0, <2>1, <2>3, <2>4, <2>5, OthersStay, ReadsStay
<1>14. ASSUME NEW p \in Packers, PackRename(p) PROVE Goal
  <2>1. p \in Proc /\ p \in Mutators /\ pc[p] = "pRename"
    BY <1>14 DEF Proc, Mutators, PackRename
  <2>2. packLock = snap[p] /\ snap[p] \in Packed
    BY <1>0, <2>1 DEF StepOK, EntryOK
  <2>3. /\ packed' = snap[p] /\ loose' = loose /\ pc'[p] = "pPrune"
        /\ prune'[p] \subseteq prune[p] /\ LocalFrame(p) /\ Observe
    BY <1>0, <1>14, <2>1, <2>2 DEF PackRename, GoTo, LocalFrame, Packed
  <2>4. \A r \in Ref : \/ packed'[r] = packed[r] /\ r \notin prune[p]
                       \/ packed'[r] = loose[r] /\ loose[r] # NoTarget
    BY <1>0, <2>1, <2>3 DEF StepOK, EntryOK
  <2>5. \A r \in Ref : packed'[r] = packed[r] \/ packed'[r] = Resolved(r)'
    BY <2>3, <2>4 DEF Resolved
  <2>6. StepOK(p)'
    BY <1>0, <2>1, <2>3, <2>4 DEF StepOK, RoleOK, DeleteOK, EntryOK, Deleting
  <2> QED
    BY <1>0, <2>1, <2>3, <2>5, <2>6, OthersStay, ReadsObserve
<1>15. ASSUME NEW p \in Packers, PackPrune(p) PROVE Goal
  <2>1. p \in Proc /\ p \in Mutators /\ pc[p] = "pPrune"
    BY <1>15 DEF Proc, Mutators, PackPrune
  <2>2. PICK r \in prune[p] : /\ loose' = [loose EXCEPT ![r] = NoTarget]
                              /\ prune' = [prune EXCEPT ![p] = @ \ {r}]
    BY <1>15 DEF PackPrune
  <2>3. /\ LocalFrame(p) /\ UNCHANGED <<packed, pc>> /\ prune'[p] = prune[p] \ {r}
        /\ \A x \in prune'[p] : loose'[x] = loose[x]
    BY <1>0, <1>15, <2>1, <2>2 DEF PackPrune, LocalFrame
  <2>4. StepOK(p)'
    BY <1>0, <2>1, <2>3 DEF StepOK, RoleOK, DeleteOK, EntryOK, Deleting
  <2>5. \A q \in Proc : saw[q] \subseteq saw'[q]
    BY <1>15, ObserveGrows DEF PackPrune
  <2> QED
    BY <1>0, <2>1, <2>3, <2>4, <2>5, OthersStay, ReadsStay
<1>16. ASSUME NEW p \in Readers, NEW r \in Ref, ReadLoose(p, r) PROVE Goal
  <2>1. p \in Proc
    BY DEF Proc
  <2>2. /\ LocalFrame(p) /\ pc'[p] = "rPacked" /\ name'[p] = r /\ UNCHANGED files
        /\ packed' = packed /\ saw'[p] = {packed[r]}
        /\ \A q \in Proc \ {p} : saw'[q] = saw[q]
    BY <1>0, <1>16, <2>1 DEF ReadLoose, GoTo, LocalFrame, files, Resolved
  <2>3. StepOK(p)'
    BY <2>2 DEF StepOK, RoleOK, DeleteOK, EntryOK, Deleting
  <2>4. ReadsAreAtomic'
    BY <1>0, <2>1, <2>2 DEF ReadsAreAtomic, LocalFrame, Proc
  <2> QED
    BY <2>1, <2>2, <2>3, <2>4, OthersStay DEF files
<1>17. ASSUME NEW p \in Proc, ReadPacked(p) \/ Die(p) PROVE Goal
  <2>1. /\ Return(p) /\ UNCHANGED <<loose, packed, packLock, newLock>>
        /\ out' = out \/ Closed(p)
        /\ \A q \in Proc \ {p} : saw'[q] = saw[q]
    BY <1>0, <1>17 DEF ReadPacked, Die, files
  <2>2. \A q \in Proc \ {p} : out'[q] = out[q]
    BY <2>1, OutIs
  <2> QED
    BY <1>0, <2>1, <2>2, ReturnOK, OthersStay, ReadsStay
<1>23. ASSUME NEW p \in Proc, WriteFails(p) PROVE Goal
  <2>1. /\ LocalFrame(p) /\ UNCHANGED <<loose, packed, packLock, newLock, name, saw>>
        /\ Closed(p)
        /\ \/ pc[p] = "wFill" /\ pc'[p] = "unlinkRef"
           \/ pc[p] = "dFill" /\ pc'[p] = "unlinkNew"
           \/ pc[p] = "pFill" /\ pc'[p] = "unlinkPack"
    BY <1>0, <1>23 DEF WriteFails, GoTo, LocalFrame
  <2>2. \A q \in Proc \ {p} : out'[q] = out[q]
    BY <2>1, OutIs
  <2>3. StepOK(p)'
    BY <1>0, <2>1 DEF StepOK, RoleOK, DeleteOK, EntryOK, Deleting
  <2> QED
    BY <1>0, <2>1, <2>2, <2>3, OthersStay, ReadsStay
<1>18. ASSUME UNCHANGED vars PROVE Goal
  <2>1. \A q \in Proc : StepOK(q)'
    BY <1>0, <1>18 DEF vars, files, locals, StepOK, RoleOK, DeleteOK, EntryOK
  <2>2. ReadsAreAtomic'
    BY <1>0, <1>18 DEF vars, files, locals, ReadsAreAtomic
  <2> QED
    BY <2>1, <2>2
<1> HIDE DEF Goal
<1>19. Goal
  BY <1>1, <1>2, <1>3, <1>4, <1>5, <1>6, <1>7, <1>8, <1>9, <1>10, <1>11, <1>12,
     <1>13, <1>14, <1>15, <1>16, <1>17, <1>18, <1>20, <1>21, <1>22, <1>23
     DEF Next, Proc, Mutators
<1>24. clashed' = {}
  <2>1. ASSUME NEW p \in Writers, NEW r \in Ref, WriteLock(p, r) PROVE clashed' = clashed
    <3>1. p \in Proc /\ p \in Mutators /\ pc[p] = "idle"
      BY <2>1 DEF Proc, Mutators, WriteLock
    <3>2. \A q \in Proc : ~AtWork(q, r)
      BY <1>0, <3>1 DEF AtWork, StepOK, RoleOK, OneMutator
    <3> QED
      BY <2>1, <3>2 DEF WriteLock
  <2>2. clashed = {}
    BY DEF SoleInv
  <2> QED
    BY <2>1, <2>2 DEF Next, vars, WriteFill, WriteRename, UnlinkRefLock, DeleteLoose,
       DeleteScan, DeleteOpen, DeleteLock, DeleteFill, DeleteRename, UnlinkNewLock,
       PackRead, PackList, PackReadLoose, PackReadPacked, PackLock, PackFill, PackRename,
       UnlinkPackLock, PackPrune, PackDone, ReadLoose, ReadPacked, Die, WriteFails
<1> QED
  BY <1>19, <1>24, WrittenStep, FileStep DEF SoleInv, Goal

-----------------------------------------------------------------------------
(* The store implements the map *)

\* The names that delete_ref is working on, as Map takes them from the state.
Removing == {name[p] : p \in {q \in Proc : pc[q] \in Deleting}}

\* Only the one process that changes files deletes.
LEMMA RemovingIs ==
    ASSUME OneMutator, SoleInv, SoleInv', NEW p \in Mutators
    PROVE  /\ Removing = IF pc[p] \in Deleting THEN {name[p]} ELSE {}
           /\ Removing' = IF pc'[p] \in Deleting THEN {name'[p]} ELSE {}
<1>1. p \in Proc /\ "idle" \notin Deleting /\ "rPacked" \notin Deleting
  BY DEF Mutators, Proc, Deleting
<1>2. \A q \in Proc : pc[q] \in Deleting => q = p
  BY <1>1 DEF SoleInv, StepOK, RoleOK, OneMutator
<1>3. \A q \in Proc : pc'[q] \in Deleting => q = p
  BY <1>1 DEF SoleInv, StepOK, RoleOK, OneMutator
<1> QED
  BY <1>1, <1>2, <1>3 DEF Removing

\* What a step of the map is, in terms of the store.
LEMMA MapStutters ==
    ASSUME \A r \in Ref : Resolved(r)' = Resolved(r), past' = past, Removing' = Removing
    PROVE  UNCHANGED Map!mapVars
<1>1. [r \in Ref |-> Resolved(r)]' = [r \in Ref |-> Resolved(r)]
  OBVIOUS
<1> QED
  BY <1>1 DEF Map!mapVars, Removing, Deleting

LEMMA MapSets ==
    ASSUME TypeInv, NEW r \in Ref, NEW t \in Target,
           \A x \in Ref : Resolved(x)' = IF x = r THEN t ELSE Resolved(x),
           past' = [past EXCEPT ![r] = @ \cup {t}], Removing' = Removing
    PROVE  Map!MapNext
<1>1. [x \in Ref |-> Resolved(x)]' = [[x \in Ref |-> Resolved(x)] EXCEPT ![r] = t]
  OBVIOUS
<1>2. Map!Set(r, t)
  BY <1>1 DEF Map!Set, Removing, Deleting
<1> QED
  BY <1>2 DEF Map!MapNext

LEMMA MapDeletes ==
    ASSUME NEW r \in Ref, past' = past,
           \/ /\ Removing' = Removing \cup {r}
              /\ \A x \in Ref \ {r} : Resolved(x)' = Resolved(x)
              /\ Resolved(r)' \in past[r] \cup {NoTarget}
           \/ /\ r \in Removing /\ Removing' = Removing \ {r}
              /\ \A x \in Ref \ {r} : Resolved(x)' = Resolved(x)
              /\ Resolved(r)' \in {Resolved(r), NoTarget}
    PROVE  Map!MapNext
<1>1. [x \in Ref |-> Resolved(x)]' =
        [[x \in Ref |-> Resolved(x)] EXCEPT ![r] = Resolved(r)']
  OBVIOUS
<1>2. CASE Resolved(r)' = Resolved(r)
  <2>1. [x \in Ref |-> Resolved(x)]' = [x \in Ref |-> Resolved(x)]
    BY <1>2
  <2>2. Map!StartDelete(r) \/ Map!FinishDelete(r)
    BY <1>1, <2>1 DEF Map!StartDelete, Map!FinishDelete, Removing, Deleting
  <2> QED
    BY <2>2 DEF Map!MapNext
<1>3. CASE Resolved(r)' # Resolved(r)
  <2>1. Map!StartDelete(r) \/ Map!FinishDelete(r)
    BY <1>1, <1>3 DEF Map!StartDelete, Map!FinishDelete, Removing, Deleting
  <2> QED
    BY <2>1 DEF Map!MapNext
<1> QED
  BY <1>2, <1>3

LEMMA MapStep ==
    ASSUME OneMutator, TypeInv, TypeInv', SoleInv, SoleInv', [Next]_vars
    PROVE  Map!MapNext \/ UNCHANGED Map!mapVars
<1> DEFINE Goal == Map!MapNext \/ UNCHANGED Map!mapVars
<1> USE RefStoreAssumption DEF ghosts
<1>0. /\ pc \in [Proc -> PC] /\ name \in [Proc -> Ref \cup {NoRef}]
      /\ prune \in [Proc -> SUBSET Ref]
      /\ snap \in [Proc -> Packed] /\ packed \in [Ref -> Id \cup {NoTarget}]
      /\ loose \in [Ref -> Content]
      /\ refLock \in [Ref -> Content]
      /\ (\A q \in Proc : StepOK(q)) /\ WrittenInv
  BY DEF TypeInv, TypeOK, Packed, SoleInv
<1>00. /\ \A p \in Proc, r \in Ref : name[p] = r =>
            /\ pc[p] = "wFill" => out[p] = LockFile(r)
            /\ pc[p] = "wRename" => refLock[r] # Empty
       /\ NewLockFile # PackedFile /\ PackLockFile # PackedFile
       /\ \A r \in Ref : LockFile(r) # LooseFile(r)
  BY PathsDiffer DEF SoleInv, FileInv, EmptyOK
<1>1. ASSUME NEW p \in Mutators, UNCHANGED <<loose, packed, past>>,
             pc[p] \notin Deleting, pc'[p] \notin Deleting
      PROVE  Goal
  BY <1>1, RemovingIs, MapStutters DEF Resolved
<1>2. ASSUME NEW p \in Mutators, UNCHANGED <<loose, packed, past>>,
             pc[p] \in Deleting, pc'[p] \in Deleting, name'[p] = name[p]
      PROVE  Goal
  BY <1>2, RemovingIs, MapStutters DEF Resolved
<1>3. ASSUME NEW p \in Mutators, UNCHANGED <<loose, packed, past>>,
             pc[p] \in Deleting, pc'[p] = "idle"
      PROVE  Goal
  <2>1. p \in Proc /\ name[p] \in Ref
    BY <1>3 DEF Mutators, Proc, TypeInv, NameInv, Deleting
  <2>2. Removing = {name[p]} /\ Removing' = {}
    BY <1>3, RemovingIs DEF Deleting
  <2>3. \A x \in Ref : Resolved(x)' = Resolved(x)
    BY <1>3 DEF Resolved
  <2> QED
    BY <1>3, <2>1, <2>2, <2>3, MapDeletes
<1>4. ASSUME NEW p \in Writers, NEW r \in Ref, WriteLock(p, r) PROVE Goal
  <2>1. p \in Mutators /\ p \in Proc
    BY DEF Mutators, Proc
  <2> QED
    BY <1>0, <1>1, <1>4, <2>1 DEF WriteLock, GoTo, Deleting
<1>18. ASSUME NEW p \in Writers, NEW t \in Target, WriteFill(p, t) PROVE Goal
  <2>1. p \in Mutators /\ p \in Proc /\ pc[p] = "wFill" /\ name[p] \in Ref
    BY <1>18 DEF Mutators, Proc, WriteFill, TypeInv, NameInv
  <2>2. out[p] # LooseFile(name[p])
    BY <1>00, <2>1
  <2>3. UNCHANGED <<loose, packed, past>> /\ pc'[p] = "wRename"
    BY <1>0, <1>18, <2>1, <2>2 DEF WriteFill, GoTo
  <2> QED
    BY <1>1, <2>1, <2>3 DEF Deleting
<1>5. ASSUME NEW p \in Writers, WriteRename(p) PROVE Goal
  <2>1. p \in Mutators /\ p \in Proc /\ pc[p] = "wRename" /\ name[p] \in Ref
    BY <1>5 DEF Mutators, Proc, WriteRename, TypeInv, NameInv
  <2>2. CASE refLock[name[p]] # NoTarget
    <3>2. refLock[name[p]] \in Target
      BY <1>0, <1>00, <2>1, <2>2 DEF Content
    <3>5. {refLock[name[p]]} \ {Empty} = {refLock[name[p]]}
      BY <1>00, <2>1
    <3>1. /\ loose' = [loose EXCEPT ![name[p]] = refLock[name[p]]]
          /\ past' = [past EXCEPT ![name[p]] = @ \cup {refLock[name[p]]}]
          /\ packed' = packed /\ pc'[p] = "idle"
      BY <1>0, <1>5, <2>1, <2>2, <3>5 DEF WriteRename, Return, GoTo
    <3>3. \A x \in Ref : Resolved(x)' =
              IF x = name[p] THEN refLock[name[p]] ELSE Resolved(x)
      BY <1>0, <2>1, <2>2, <3>1 DEF Resolved
    <3>4. Removing' = Removing
      BY <2>1, <3>1, RemovingIs DEF Deleting
    <3> QED
      BY <2>1, <3>1, <3>2, <3>3, <3>4, MapSets
  <2>3. CASE refLock[name[p]] = NoTarget
    BY <1>0, <1>1, <1>5, <2>1, <2>3 DEF WriteRename, GoTo, Deleting
  <2> QED
    BY <2>2, <2>3
<1>6. ASSUME NEW p \in Mutators, UnlinkRefLock(p) \/ UnlinkPackLock(p) \/ PackDone(p)
      PROVE  Goal
  <2>1. /\ pc[p] \in {"unlinkRef", "unlinkPack", "pPrune"} /\ pc'[p] = "idle"
        /\ UNCHANGED <<loose, packed, past>>
    BY <1>0, <1>6 DEF UnlinkRefLock, UnlinkPackLock, PackDone, Return, GoTo, files,
         Mutators, Proc
  <2> QED
    BY <1>1, <2>1 DEF Deleting
<1>7. ASSUME NEW p \in Deleters, NEW r \in Ref, DeleteLoose(p, r) PROVE Goal
  <2>1. p \in Mutators /\ p \in Proc
    BY DEF Mutators, Proc
  <2>2. /\ loose' = [loose EXCEPT ![r] = NoTarget] /\ UNCHANGED <<packed, past>>
        /\ pc[p] = "idle" /\ pc'[p] = "dScan" /\ name'[p] = r
    BY <1>0, <1>7, <2>1 DEF DeleteLoose, GoTo
  <2>3. Removing = {} /\ Removing' = {r}
    BY <2>1, <2>2, RemovingIs DEF Deleting
  <2>4. /\ \A x \in Ref \ {r} : Resolved(x)' = Resolved(x)
        /\ Resolved(r)' = packed[r]
    BY <1>0, <2>2 DEF Resolved
  <2>5. packed[r] \in past[r] \cup {NoTarget}
    BY <1>0 DEF WrittenInv
  <2> QED
    BY <2>2, <2>3, <2>4, <2>5, MapDeletes
<1>8. ASSUME NEW p \in Deleters,
             DeleteScan(p) \/ DeleteOpen(p) \/ DeleteLock(p) \/ UnlinkNewLock(p)
      PROVE  Goal
  <2>1. p \in Mutators /\ p \in Proc
    BY DEF Mutators, Proc
  <2>2. /\ pc[p] \in Deleting /\ UNCHANGED <<loose, packed, past>>
        /\ pc'[p] = "idle" \/ (pc'[p] \in Deleting /\ name'[p] = name[p])
    BY <1>0, <1>8, <2>1 DEF DeleteScan, DeleteOpen, DeleteLock, UnlinkNewLock, Return,
         GoTo, files, Deleting
  <2> QED
    BY <1>2, <1>3, <2>1, <2>2
<1>19. ASSUME NEW p \in Deleters, DeleteFill(p) PROVE Goal
  <2>1. p \in Mutators /\ p \in Proc /\ pc[p] = "dFill"
    BY <1>19 DEF Mutators, Proc, DeleteFill
  <2>2. out[p] = NewLockFile
    BY <1>0, <2>1 DEF StepOK, DeleteOK
  <2>3. UNCHANGED <<loose, packed, past, name>> /\ pc'[p] = "dRename"
    BY <1>0, <1>00, <1>19, <2>1, <2>2 DEF DeleteFill, GoTo
  <2> QED
    BY <1>2, <2>1, <2>3 DEF Deleting
<1>9. ASSUME NEW p \in Deleters, DeleteRename(p) PROVE Goal
  <2>1. p \in Mutators /\ p \in Proc /\ pc[p] = "dRename" /\ name[p] \in Ref
    BY <1>9 DEF Mutators, Proc, DeleteRename, TypeInv, NameInv
  <2>2. /\ loose' = loose /\ past' = past /\ loose[name[p]] = NoTarget
        /\ newLock = [packed EXCEPT ![name[p]] = NoTarget]
    BY <1>0, <1>9, <2>1 DEF DeleteRename, StepOK, DeleteOK, Deleting
  <2>3. newLock # NoFile
    BY <1>0, <2>1, <2>2 DEF Packed
  <2>4. packed' = newLock /\ pc'[p] = "idle"
    BY <1>0, <1>9, <2>1, <2>3 DEF DeleteRename, Return, GoTo
  <2>5. Removing = {name[p]} /\ Removing' = {}
    BY <2>1, <2>4, RemovingIs DEF Deleting
  <2>6. /\ \A x \in Ref \ {name[p]} : Resolved(x)' = Resolved(x)
        /\ \A x \in {name[p]} : Resolved(x)' = NoTarget
    BY <1>0, <2>1, <2>2, <2>4 DEF Resolved
  <2> DEFINE r == name[p]
  <2>7. r \in Ref /\ r \in Removing /\ Removing' = Removing \ {r}
    BY <2>1, <2>5
  <2> HIDE DEF r
  <2>8. PICK s \in Ref : s = r
    BY <2>7
  <2>9. /\ \A x \in Ref \ {s} : Resolved(x)' = Resolved(x)
        /\ Resolved(s)' = NoTarget
    BY <2>6, <2>8 DEF r
  <2> QED
    BY <2>2, <2>7, <2>8, <2>9, MapDeletes
<1>10. ASSUME NEW p \in Packers,
              PackRead(p) \/ PackList(p) \/ PackReadLoose(p) \/ PackReadPacked(p) \/ PackLock(p)
       PROVE  Goal
  <2>1. p \in Mutators /\ p \in Proc
    BY DEF Mutators, Proc
  <2>2. pc[p] \notin Deleting /\ UNCHANGED <<loose, packed, past>>
    BY <1>10 DEF PackRead, PackList, PackReadLoose, PackReadPacked, PackLock, files, Deleting
  <2>3. pc'[p] \notin Deleting
    <3>1. CASE PackReadLoose(p)
      <4>1. PICK r \in todo[p] : EntryRead(p, r)
        BY <2>1, <3>1, ReadsEntry
      <4> QED
        BY <1>0, <2>1, <2>2, <4>1 DEF EntryRead, Return, GoTo, Deleting
    <3>2. CASE ~PackReadLoose(p)
      BY <1>0, <1>10, <2>1, <3>2 DEF PackRead, PackList, PackReadPacked, PackLock, Return,
           GoTo, Deleting
    <3> QED
      BY <3>1, <3>2
  <2> QED
    BY <1>1, <2>1, <2>2, <2>3
<1>20. ASSUME NEW p \in Packers, PackFill(p) PROVE Goal
  <2>1. p \in Mutators /\ p \in Proc /\ pc[p] = "pFill"
    BY <1>20 DEF Mutators, Proc, PackFill
  <2>2. out[p] = PackLockFile
    BY <1>0, <2>1 DEF StepOK, EntryOK
  <2>3. UNCHANGED <<loose, packed, past>> /\ pc'[p] = "pRename"
    BY <1>0, <1>00, <1>20, <2>1, <2>2 DEF PackFill, GoTo
  <2> QED
    BY <1>1, <2>1, <2>3 DEF Deleting
<1>11. ASSUME NEW p \in Packers, PackRename(p) PROVE Goal
  <2>1. p \in Mutators /\ p \in Proc /\ pc[p] = "pRename"
    BY <1>11 DEF Mutators, Proc, PackRename
  <2>2. packLock = snap[p] /\ snap[p] # NoFile
    BY <1>0, <2>1 DEF StepOK, EntryOK, Packed
  <2>3. packed' = snap[p] /\ loose' = loose /\ past' = past /\ pc'[p] = "pPrune"
    BY <1>0, <1>11, <2>1, <2>2 DEF PackRename, GoTo
  <2>4. \A r \in Ref : packed'[r] = packed[r] \/ loose[r] # NoTarget
    BY <1>0, <2>1, <2>3 DEF StepOK, EntryOK
  <2>5. \A r \in Ref : Resolved(r)' = Resolved(r)
    BY <2>3, <2>4 DEF Resolved
  <2>6. Removing' = Removing
    BY <2>1, <2>3, RemovingIs DEF Deleting
  <2> QED
    BY <2>3, <2>5, <2>6, MapStutters
<1>12. ASSUME NEW p \in Packers, PackPrune(p) PROVE Goal
  <2>1. p \in Mutators /\ p \in Proc /\ pc[p] = "pPrune" /\ UNCHANGED <<pc, packed, past>>
    BY <1>12 DEF Mutators, Proc, PackPrune
  <2>2. PICK r \in prune[p] : loose' = [loose EXCEPT ![r] = NoTarget]
    BY <1>12 DEF PackPrune
  <2>3. r \in Ref /\ packed[r] = loose[r]
    BY <1>0, <2>1 DEF StepOK, EntryOK
  <2>4. \A x \in Ref : Resolved(x)' = Resolved(x)
    BY <1>0, <2>1, <2>2, <2>3 DEF Resolved
  <2>5. Removing' = Removing
    BY <2>1, RemovingIs DEF Deleting
  <2> QED
    BY <2>1, <2>4, <2>5, MapStutters
<1>13. ASSUME NEW p \in Proc, \A r \in Ref : Resolved(r)' = Resolved(r), past' = past,
              pc[p] \notin Deleting, pc'[p] \notin Deleting,
              \A q \in Proc \ {p} : pc'[q] = pc[q] /\ name'[q] = name[q]
       PROVE  Goal
  <2>1. Removing' = Removing
    BY <1>13 DEF Removing
  <2> QED
    BY <1>13, <2>1, MapStutters
<1>14. ASSUME NEW p \in Proc, (\E r \in Ref : ReadLoose(p, r)) \/ ReadPacked(p)
       PROVE  Goal
  <2>1. /\ pc[p] \in {"idle", "rPacked"} /\ pc'[p] \in {"idle", "rPacked"}
        /\ UNCHANGED <<loose, packed, past>>
        /\ \A q \in Proc \ {p} : pc'[q] = pc[q] /\ name'[q] = name[q]
    BY <1>0, <1>14 DEF ReadLoose, ReadPacked, Return, GoTo, files
  <2> QED
    BY <1>13, <2>1 DEF Deleting, Resolved
<1>15. ASSUME NEW p \in Proc, Die(p) PROVE Goal
  <2>1. /\ pc'[p] = "idle" /\ UNCHANGED <<loose, packed, past>>
        /\ \A q \in Proc \ {p} : pc'[q] = pc[q] /\ name'[q] = name[q]
    BY <1>0, <1>15 DEF Die, Return, GoTo, files
  <2>2. CASE pc[p] \in Deleting
    <3>1. p \in Mutators
      BY <1>0, <2>2 DEF StepOK, RoleOK, Deleting
    <3> QED
      BY <1>3, <2>1, <2>2, <3>1
  <2>3. CASE pc[p] \notin Deleting
    BY <1>13, <2>1, <2>3 DEF Deleting, Resolved
  <2> QED
    BY <2>2, <2>3
<1>21. ASSUME NEW p \in Proc, WriteFails(p) PROVE Goal
  <2>1. /\ UNCHANGED <<loose, packed, past, name>>
        /\ \/ pc[p] \in {"wFill", "pFill"} /\ pc'[p] \in {"unlinkRef", "unlinkPack"}
           \/ pc[p] = "dFill" /\ pc'[p] = "unlinkNew"
    BY <1>0, <1>21 DEF WriteFails, GoTo
  <2>2. p \in Mutators
    BY <1>0, <2>1 DEF StepOK, RoleOK
  <2> QED
    BY <1>1, <1>2, <2>1, <2>2 DEF Deleting
<1>16. ASSUME UNCHANGED vars PROVE Goal
  <2>1. UNCHANGED <<loose, packed, past, pc, name>>
    BY <1>16 DEF vars, files, locals
  <2> QED
    BY <2>1, MapStutters DEF Resolved, Removing
<1> HIDE DEF Goal
<1>17. Goal
  BY <1>4, <1>5, <1>6, <1>7, <1>8, <1>9, <1>10, <1>11, <1>12, <1>14, <1>15, <1>16,
     <1>18, <1>19, <1>20, <1>21
     DEF Next, Mutators, Proc
<1> QED
  BY <1>17 DEF Goal

LEMMA SoleInit == Init => SoleInv
<1> SUFFICES ASSUME Init PROVE SoleInv
  OBVIOUS
<1>1. \A p \in Proc : pc[p] = "idle" /\ prune[p] = {}
  BY DEF Init
<1>2. \A p \in Proc : StepOK(p)
  BY <1>1 DEF StepOK, RoleOK, DeleteOK, EntryOK, Deleting
<1>3. ReadsAreAtomic
  BY <1>1 DEF ReadsAreAtomic, Proc
<1> QED
  BY <1>2, <1>3, InitWritten, InitFile DEF SoleInv, Init

LEMMA SoleInvariant ==
    ASSUME OneMutator
    PROVE  Spec => [](TypeInv /\ SoleInv)
<1>1. Init => TypeInv /\ SoleInv
  BY InitType, SoleInit
<1>2. TypeInv /\ SoleInv /\ [Next]_vars => (TypeInv /\ SoleInv)'
  BY TypeStep, SoleStep
<1> QED
  BY <1>1, <1>2, PTL DEF Spec

\* read_ref finds a value that the name had while it read, for any number of
\* readers beside one process that writes, deletes and packs, deaths included.
THEOREM ReadsSeeOneMoment ==
    ASSUME OneMutator
    PROVE  Spec => []ReadsAreAtomic
BY SoleInvariant, PTL DEF SoleInv

\* delete_ref that returns Ok has removed the loose file and the packed entry.
THEOREM DeletionsAreComplete ==
    ASSUME OneMutator
    PROVE  Spec => DeletedRefIsGone
<1> DEFINE Gone == \A p \in Deleters, r \in Ref :
        /\ pc[p] \in {"dScan", "dRename"} /\ name[p] = r
        /\ pc'[p] = "idle"
        /\ deaths' = deaths
        => Resolved(r)' = NoTarget
<1>1. ASSUME TypeInv, SoleInv, [Next]_vars, NEW p \in Deleters, NEW r \in Ref,
             pc[p] \in {"dScan", "dRename"}, name[p] = r, pc'[p] = "idle",
             deaths' = deaths
      PROVE  Resolved(r)' = NoTarget
  <2>1. p \in Mutators /\ p \in Proc
    BY DEF Mutators, Proc
  <2>2. /\ pc \in [Proc -> PC] /\ packed \in [Ref -> Id \cup {NoTarget}]
        /\ deaths \in Nat /\ StepOK(p)
    BY <1>1, <2>1 DEF TypeInv, TypeOK, Packed, SoleInv
  <2>3. DeleteScan(p) \/ DeleteRename(p)
    <3>1. ~ \E q \in Proc : Die(q) \/ WriteFails(q)
      BY <1>1, <2>2 DEF Die, WriteFails
    <3>2. pc' # pc
      BY <1>1, <2>1
    <3>3. \A q \in Mutators : q = p
      BY <2>1 DEF OneMutator
    <3>4. ~ \E q \in Readers : ReadPacked(q) \/ \E x \in Ref : ReadLoose(q, x)
      BY <1>1, <2>1, <2>2 DEF ReadPacked, ReadLoose, Return, GoTo, Proc
    <3> QED
      BY <1>1, <3>1, <3>2, <3>3, <3>4 DEF Next, Mutators, vars, locals, WriteLock, WriteFill,
           WriteRename, UnlinkRefLock, DeleteLoose, DeleteOpen, DeleteLock, DeleteFill,
           UnlinkNewLock, PackRead, PackList, PackReadLoose, PackReadPacked, PackLock,
           PackFill, PackRename, UnlinkPackLock, PackPrune, PackDone
  <2>4. loose' = loose /\ loose[r] = NoTarget
    BY <1>1, <2>2, <2>3 DEF StepOK, DeleteOK, Deleting, DeleteScan, DeleteRename, files
  <2>5. CASE DeleteScan(p)
    <3>1. packed[r] = NoTarget /\ packed' = packed
      BY <1>1, <2>1, <2>2, <2>5 DEF DeleteScan, GoTo, files
    <3> QED
      BY <2>4, <3>1 DEF Resolved
  <2>6. CASE DeleteRename(p)
    <3>1. newLock = [packed EXCEPT ![r] = NoTarget]
      BY <1>1, <2>2, <2>6 DEF DeleteRename, StepOK, DeleteOK
    <3>2. packed' = newLock
      BY <1>1, <2>1, <2>2, <2>6 DEF DeleteRename, GoTo
    <3> QED
      BY <2>2, <2>4, <3>1, <3>2 DEF Resolved
  <2> QED
    BY <2>3, <2>5, <2>6
<1>2. TypeInv /\ SoleInv /\ [Next]_vars => [Gone]_vars
  BY <1>1
<1>3. Spec => [][Gone]_vars
  BY <1>2, SoleInvariant, PTL DEF Spec
<1> QED
  BY <1>3 DEF DeletedRefIsGone

\* Step by step the store does what the map of module RefMap may do: packing
\* and every lock, scan and failure in it are invisible.
THEOREM StoreImplementsMap ==
    ASSUME OneMutator
    PROVE  Spec => RefinesMap
<1>1. Init => Map!MapInit
  <2> SUFFICES ASSUME Init PROVE Map!MapInit
    OBVIOUS
  <2>1. \A r \in Ref : Resolved(r) = loose[r]
    BY DEF Init, Resolved, EmptyPacked
  <2>2. [r \in Ref |-> Resolved(r)] \in [Ref -> Target \cup {NoTarget}]
    BY <2>1 DEF Init
  <2>3. past = [r \in Ref |-> {[q \in Ref |-> Resolved(q)][r]} \ {NoTarget}]
    BY <2>1 DEF Init
  <2>4. {name[p] : p \in {q \in Proc : pc[q] \in {"dScan", "dOpen", "dLock", "dFill",
                                                  "dRename", "unlinkNew"}}} = {}
    BY DEF Init
  <2> QED
    BY <2>2, <2>3, <2>4 DEF Map!MapInit
<1>2. /\ TypeInv /\ SoleInv /\ TypeInv' /\ SoleInv' /\ [Next]_vars
        => [Map!MapNext]_(Map!mapVars)
  BY MapStep
<1> QED
  BY <1>1, <1>2, SoleInvariant, PTL DEF Spec, RefinesMap, Map!MapSpec
=============================================================================
