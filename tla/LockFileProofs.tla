--------------------------- MODULE LockFileProofs ---------------------------
(***************************************************************************)
(* Proofs about LockFile for any number of processes, inodes and chunks.   *)
(*                                                                         *)
(* Under contention: TypeOK, LockHasCreator and TornFileHasWriter.  As     *)
(* long as no two writers overlap: TargetWhole, ViewWhole, SerialUpdates.  *)
(***************************************************************************)
EXTENDS LockFile, TLAPS

\* The initial states are well typed.
LEMMA InitTypeOK == Init => TypeOK
<1> SUFFICES ASSUME Init PROVE TypeOK
  OBVIOUS
<1>1. overlap \in BOOLEAN
  BY Zenon DEF Init
<1> QED
  BY <1>1, LockFileAssumption DEF Init, TypeOK, InodeOrNone, PC, Fate

\* The type invariant of the lock protocol holds in every reachable state,
\* for any set of writers, readers and inodes (write_index_to_path).
THEOREM LockFileTypeOK == Spec => []TypeOK
<1>1. Init => TypeOK
  BY InitTypeOK
<1>2. TypeOK /\ [Next]_vars => TypeOK'
  <2> SUFFICES ASSUME TypeOK, [Next]_vars PROVE TypeOK'
    OBVIOUS
  <2> USE LockFileAssumption DEF TypeOK, InodeOrNone, PC, Fate
  <2>1. ASSUME NEW w \in Writer, CreateLock(w) PROVE TypeOK'
    BY <2>1 DEF CreateLock, Meet
  <2>2. ASSUME NEW w \in Writer, LockExists(w) PROVE TypeOK'
    BY <2>2 DEF LockExists, Meet
  <2>3. ASSUME NEW w \in Writer, WriteChunk(w) PROVE TypeOK'
    <3>1. \A i \in Inode : len'[i] = IF i = fd[w] THEN len[i] + 1 ELSE len[i]
      BY <2>3 DEF WriteChunk
    <3>2. \A i \in Inode : len'[i] \in 0 .. Chunks
      BY <2>3, <3>1 DEF WriteChunk
    <3>3. len' \in [Inode -> 0 .. Chunks]
      BY <2>3, <3>2 DEF WriteChunk
    <3> QED
      BY <2>3, <3>3 DEF WriteChunk
  <2>4. ASSUME NEW w \in Writer, FinishWrite(w) PROVE TypeOK'
    BY <2>4 DEF FinishWrite
  <2>5. ASSUME NEW w \in Writer, WriteFails(w) PROVE TypeOK'
    <3>1. fate' \in [Inode -> Fate]
      BY <2>5 DEF WriteFails
    <3>2. faults' \in 0 .. MaxFaults /\ pc' \in [Writer -> PC]
      BY <2>5 DEF WriteFails
    <3> QED
      BY <2>5, <3>1, <3>2 DEF WriteFails
  <2>6. ASSUME NEW w \in Writer, Rename(w) PROVE TypeOK'
    BY <2>6 DEF Rename
  <2>7. ASSUME NEW w \in Writer, RenameFails(w) PROVE TypeOK'
    BY <2>7 DEF RenameFails
  <2>8. ASSUME NEW w \in Writer, Unlink(w) PROVE TypeOK'
    BY <2>8 DEF Unlink
  <2>9. ASSUME NEW w \in Writer, Die(w) PROVE TypeOK'
    BY <2>9 DEF Die
  <2>10. ASSUME NEW r \in Reader, MapFile(r) PROVE TypeOK'
    BY <2>10 DEF MapFile
  <2>11. ASSUME NEW r \in Reader, UnmapFile(r) PROVE TypeOK'
    BY <2>11 DEF UnmapFile
  <2>12. CASE UNCHANGED vars
    BY <2>12 DEF vars
  <2> QED
    BY <2>1, <2>2, <2>3, <2>4, <2>5, <2>6, <2>7, <2>8, <2>9, <2>10, <2>11,
       <2>12 DEF Next, WriterStep
<1> QED
  BY <1>1, <1>2, PTL DEF Spec

-----------------------------------------------------------------------------
(* Contention *)

\* Which inode each writer holds: an idle one none, a writing one a real one.
HandleInv ==
    \A w \in Writer :
        /\ pc[w] = "idle" => fd[w] = NoInode
        /\ pc[w] \in {"write", "rename"} => fd[w] \in Inode

\* No two writers created the same inode (create_new is exclusive).
HandlesDistinct ==
    \A v, w \in Writer : v # w /\ fd[v] # NoInode => fd[v] # fd[w]

\* Inode i is whole, or its creator is at work on it, or met a fault.
Attributed(i) ==
    \/ len[i] = Chunks
    \/ \E w \in Writer : pc[w] = "write" /\ fd[w] = i
    \/ fate[i] # "live"

\* The files at the two paths are attributed; a rename moves one to the other.
PathsAttributed ==
    /\ lock # NoInode => Attributed(lock)
    /\ target # NoInode => Attributed(target)

ContentionInv ==
    TypeOK /\ HandleInv /\ HandlesDistinct /\ LockHasCreator /\ PathsAttributed

\* The inductive invariant of the lock protocol with any number of writers.
THEOREM ContentionInvariant == Spec => []ContentionInv
<1>1. Init => ContentionInv
  BY LockFileAssumption, InitTypeOK
  DEF Init, ContentionInv, HandleInv, HandlesDistinct, LockHasCreator,
      PathsAttributed, Attributed, InodeOrNone
<1>2. ContentionInv /\ TypeOK' /\ [Next]_vars => ContentionInv'
  <2> SUFFICES ASSUME ContentionInv, TypeOK', [Next]_vars PROVE ContentionInv'
    OBVIOUS
  <2> USE LockFileAssumption
      DEF ContentionInv, TypeOK, HandleInv, HandlesDistinct, LockHasCreator,
          PathsAttributed, Attributed, InodeOrNone, PC, Fate
  <2>1. ASSUME NEW w \in Writer, CreateLock(w) PROVE ContentionInv'
    <3> PICK i \in Inode : /\ Free(i)
                           /\ lock' = i
                           /\ len' = [len EXCEPT ![i] = 0]
                           /\ fd' = [fd EXCEPT ![w] = i]
                           /\ fate' = [fate EXCEPT ![i] = "live"]
      BY <2>1 DEF CreateLock
    <3>1. pc' = [pc EXCEPT ![w] = "write"] /\ target' = target
      BY <2>1 DEF CreateLock
    <3>2. HandleInv' /\ HandlesDistinct'
      BY <3>1 DEF Free
    <3>3. LockHasCreator' /\ Attributed(lock)'
      BY <3>1
    <3>4. target # NoInode => Attributed(target)'
      <4> SUFFICES ASSUME target # NoInode PROVE Attributed(target)'
        OBVIOUS
      <4>1. target # i /\ \A v \in Writer : fd[v] = target => v # w \/ pc[w] # "write"
        BY <2>1 DEF Free, CreateLock
      <4>2. len'[target] = len[target] /\ fate'[target] = fate[target]
        BY <4>1
      <4>3. \A v \in Writer : pc[v] = "write" => pc'[v] = "write" /\ fd'[v] = fd[v]
        BY <3>1, <2>1 DEF CreateLock
      <4> QED
        BY <4>2, <4>3, <3>1
    <3> QED
      BY <3>1, <3>2, <3>3, <3>4
  <2>2. ASSUME NEW w \in Writer, LockExists(w) PROVE ContentionInv'
    BY <2>2 DEF LockExists
  <2>3. ASSUME NEW w \in Writer, WriteChunk(w) PROVE ContentionInv'
    BY <2>3 DEF WriteChunk
  <2>4. ASSUME NEW w \in Writer, FinishWrite(w) PROVE ContentionInv'
    BY <2>4 DEF FinishWrite
  <2>5. ASSUME NEW w \in Writer, WriteFails(w) PROVE ContentionInv'
    BY <2>5 DEF WriteFails
  <2>6. ASSUME NEW w \in Writer, Rename(w) PROVE ContentionInv'
    BY <2>6 DEF Rename
  <2>7. ASSUME NEW w \in Writer, RenameFails(w) PROVE ContentionInv'
    BY <2>7 DEF RenameFails
  <2>8. ASSUME NEW w \in Writer, Unlink(w) PROVE ContentionInv'
    BY <2>8 DEF Unlink
  <2>9. ASSUME NEW w \in Writer, Die(w) PROVE ContentionInv'
    BY <2>9 DEF Die
  <2>10. ASSUME NEW r \in Reader, MapFile(r) PROVE ContentionInv'
    BY <2>10 DEF MapFile
  <2>11. ASSUME NEW r \in Reader, UnmapFile(r) PROVE ContentionInv'
    BY <2>11 DEF UnmapFile
  <2>12. CASE UNCHANGED vars
    BY <2>12 DEF vars
  <2> QED
    BY <2>1, <2>2, <2>3, <2>4, <2>5, <2>6, <2>7, <2>8, <2>9, <2>10, <2>11,
       <2>12 DEF Next, WriterStep
<1> QED
  BY <1>1, <1>2, LockFileTypeOK, PTL DEF Spec

\* However many processes collide, only a dead process leaves a lock behind.
THEOREM LocksNeverLeak == Spec => []LockHasCreator
<1>1. ContentionInv => LockHasCreator
  BY DEF ContentionInv
<1> QED
  BY <1>1, ContentionInvariant, PTL

\* However many processes collide, a torn file in place is still being written
\* or its writer met a fault.
THEOREM TornFilesAreAttributed == Spec => []TornFileHasWriter
<1>1. ContentionInv => TornFileHasWriter
  BY LockFileAssumption
  DEF ContentionInv, PathsAttributed, Attributed, TornFileHasWriter, TypeOK,
      InodeOrNone
<1> QED
  BY <1>1, ContentionInvariant, PTL

-----------------------------------------------------------------------------
(* Writers that do not overlap *)

\* At most one writer is at work.
OneAtWork ==
    \A v, w \in Writer : pc[v] # "idle" /\ pc[w] # "idle" => v = w

\* While a writer is at work the lock path is its own file, which nobody
\* reads; before the rename that file is whole.
OwnLock ==
    \A w \in Writer :
        /\ pc[w] = "idle" => fd[w] = NoInode
        /\ fd[w] # NoInode => /\ fd[w] # target
                              /\ \A r \in Reader : view[r] # fd[w]
        /\ pc[w] \in {"write", "rename"} => fd[w] \in Inode /\ lock = fd[w]
        /\ pc[w] = "rename" => len[fd[w]] = Chunks

\* What holds before two writers overlap.
Serial ==
    /\ OneAtWork /\ OwnLock
    /\ target # NoInode => len[target] = Chunks
    /\ \A r \in Reader : view[r] # NoInode => len[view[r]] = Chunks

SerialInv == TypeOK /\ (~overlap => Serial)

\* What one step of a writer that meets no other, or of a reader, preserves
\* and promises.
LEMMA SerialStep ==
    ASSUME TypeOK, TypeOK', Serial, ~overlap', [Next]_vars
    PROVE  /\ Serial'
           /\ target # NoInode => len'[target] = len[target]
           /\ \A w \in Writer : Rename(w) => target' = fd[w]
<1> USE LockFileAssumption DEF Serial, TypeOK, OwnLock, InodeOrNone
<1> DEFINE Goal == /\ Serial'
                   /\ target # NoInode => len'[target] = len[target]
<1>1. ASSUME NEW w \in Writer, CreateLock(w) PROVE Goal
  <2>1. \A v \in Writer \ {w} : pc[v] = "idle"
    BY <1>1 DEF CreateLock, Meet
  <2>2. OneAtWork'
    BY <1>1, <2>1 DEF CreateLock, OneAtWork
  <2> QED
    BY <1>1, <2>1, <2>2 DEF CreateLock, Free
<1>2. ASSUME NEW w \in Writer, LockExists(w) PROVE Goal
  <2>1. \A v \in Writer \ {w} : pc[v] = "idle"
    BY <1>2 DEF LockExists, Meet
  <2> QED
    BY <1>2, <2>1 DEF LockExists, OneAtWork
<1>3. ASSUME NEW w \in Writer, WriteChunk(w) PROVE Goal
  <2>1. \A i \in Inode : i # fd[w] => len'[i] = len[i]
    BY <1>3 DEF WriteChunk
  <2>2. \A v \in Writer : pc[v] # "rename"
    BY <1>3 DEF WriteChunk, OneAtWork
  <2>3. fd[w] # NoInode
    BY <1>3 DEF WriteChunk
  <2> QED
    BY <1>3, <2>1, <2>2, <2>3 DEF WriteChunk, OneAtWork
<1>4. ASSUME NEW w \in Writer, FinishWrite(w) PROVE Goal
  BY <1>4 DEF FinishWrite, OneAtWork
<1>5. ASSUME NEW w \in Writer, WriteFails(w) PROVE Goal
  BY <1>5 DEF WriteFails, OneAtWork
<1>6. ASSUME NEW w \in Writer, Rename(w) PROVE Goal
  <2>1. lock = fd[w] /\ target' = fd[w] /\ len' = len /\ view' = view
    BY <1>6 DEF Rename
  <2>2. /\ target' # NoInode => len'[target'] = Chunks
        /\ \A r \in Reader : view'[r] # NoInode => len'[view'[r]] = Chunks
    BY <1>6, <2>1 DEF Rename
  <2>3. \A v \in Writer : pc'[v] = "idle" /\ fd'[v] = NoInode
    BY <1>6 DEF Rename, OneAtWork
  <2> QED
    BY <2>1, <2>2, <2>3 DEF OneAtWork
<1>7. ASSUME NEW w \in Writer, RenameFails(w) PROVE Goal
  BY <1>7 DEF RenameFails, OneAtWork
<1>8. ASSUME NEW w \in Writer, Unlink(w) PROVE Goal
  <2>1. \A v \in Writer : pc'[v] = "idle" /\ fd'[v] = NoInode
    BY <1>8 DEF Unlink, OneAtWork
  <2> QED
    BY <1>8, <2>1 DEF Unlink, OneAtWork
<1>9. ASSUME NEW w \in Writer, Die(w) PROVE Goal
  <2>1. \A v \in Writer : pc'[v] = "idle" /\ fd'[v] = NoInode
    BY <1>9 DEF Die, OneAtWork
  <2> QED
    BY <1>9, <2>1 DEF Die, OneAtWork
<1>10. ASSUME NEW r \in Reader, MapFile(r) PROVE Goal
  BY <1>10 DEF MapFile, OneAtWork
<1>11. ASSUME NEW r \in Reader, UnmapFile(r) PROVE Goal
  BY <1>11 DEF UnmapFile, OneAtWork
<1>12. ASSUME UNCHANGED vars PROVE Goal
  <2>1. /\ lock' = lock /\ target' = target /\ len' = len /\ pc' = pc
        /\ fd' = fd /\ view' = view
    BY <1>12 DEF vars
  <2> QED
    BY <2>1 DEF OneAtWork
<1>13. \A w \in Writer : Rename(w) => target' = fd[w]
  BY DEF Rename
<1>14. Goal
  BY <1>1, <1>2, <1>3, <1>4, <1>5, <1>6, <1>7, <1>8, <1>9, <1>10, <1>11,
     <1>12 DEF Next, WriterStep
<1> QED
  BY <1>13, <1>14

\* Writers that overlapped once have overlapped for good.
LEMMA OverlapStays == [Next]_vars /\ overlap => overlap'
BY DEF Next, WriterStep, CreateLock, LockExists, Meet, WriteChunk, FinishWrite,
       WriteFails, Rename, RenameFails, Unlink, Die, MapFile, UnmapFile, vars

\* The inductive invariant of writers that do not overlap.
THEOREM SerialInvariant == Spec => []SerialInv
<1>1. Init => SerialInv
  BY LockFileAssumption, InitTypeOK
  DEF Init, SerialInv, Serial, OneAtWork, OwnLock, InodeOrNone
<1>2. SerialInv /\ TypeOK' /\ [Next]_vars => SerialInv'
  BY SerialStep, OverlapStays DEF SerialInv
<1> QED
  BY <1>1, <1>2, LockFileTypeOK, PTL DEF Spec

\* As long as no two writers overlap, and whatever faults they meet, the file
\* in place is whole (index.rs write_index_to_path).
THEOREM SerialWhole == Spec => []TargetWhole
<1>1. SerialInv => TargetWhole
  BY DEF SerialInv, Serial, TargetWhole
<1> QED
  BY <1>1, SerialInvariant, PTL

\* As long as no two writers overlap, what a reader has mapped stays whole for
\* as long as it is mapped: the file is replaced under it, never rewritten.
THEOREM SerialViewsWhole == Spec => []ViewWhole
<1>1. SerialInv => ViewWhole
  BY DEF SerialInv, Serial, ViewWhole
<1> QED
  BY <1>1, SerialInvariant, PTL

\* As long as no two writers overlap an update only replaces the file
\* (index.rs:701), and an Ok means that the writer's own file is in place.
THEOREM SerialReplaces == Spec => SerialUpdates
<1>1. SerialInv /\ TypeOK' /\ [Next]_vars
        => [~overlap' =>
              /\ target # NoInode => len'[target] = len[target]
              /\ \A w \in Writer : Rename(w) => target' = fd[w]]_vars
  BY SerialStep, OverlapStays DEF SerialInv
<1> QED
  BY <1>1, SerialInvariant, LockFileTypeOK, PTL DEF Spec, SerialUpdates
=============================================================================
