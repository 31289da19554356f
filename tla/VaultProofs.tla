----------------------------- MODULE VaultProofs -----------------------------
(***************************************************************************)
(* While only stops and interrupted rebuilds happen, every snapshot record *)
(* keeps all of its chunks, and Repository implements SnapshotVault; and   *)
(* unless a rebuild has emptied the index, every record is restorable.     *)
(***************************************************************************)
EXTENDS RepositoryHistory, RepositoryProofs

CleanFaults == Faults \subseteq {"stop", "rebuild"}

(* Outside a sweep the index has no dangling entry. *)
LEMMA NoDangling ==
  ASSUME CleanInv, gc \notin {"sweep", "repoint", "drop"}
  PROVE  \A c \in Chunk : ~Dangling(c)
BY DEF CleanInv, Settled

(* Steps of a backup, forget and the start of an operation. *)
LEMMA SettledFrame ==
  ASSUME CleanInv, UNCHANGED <<storageVars, gcVars>>
  PROVE  Settled'
BY DEF CleanInv, Settled, storageVars, gcVars, Dangling, Indexed

(* Steps that change the storage outside the sweep. *)
LEMMA SettledOutside ==
  ASSUME CleanInv, [Next]_vars, gc = "no", gc' = "no", doomed' = doomed
  PROVE  Settled'
<1>1. \A c \in Chunk : ~Dangling(c)
  BY NoDangling
<1>2. doomed = {}
  BY DEF CleanInv, Settled
<1>3. \A c \in Chunk : ~Dangling(c)'
  BY <1>1, <1>2, DanglesStep DEF CleanInv, DanglesOnlyWhenDoomed
<1> QED  BY <1>2, <1>3 DEF Settled

(* An operation ends with nothing dangling. *)
LEMMA EndClean ==
  ASSUME CleanInv, ResetOperation, UNCHANGED storageVars,
         \A c \in Chunk : ~Dangling(c)
  PROVE  Settled' /\ BackupSound'
<1>1. Settled'
  BY DEF ResetOperation, EndGC, Settled, storageVars, Dangling, Indexed
<1> QED  BY <1>1 DEF ResetOperation, BackupSound

LEMMA DiscardSession ==
  ASSUME Discard, cur' = {}
  PROVE  SessionSound'
BY DEF Discard, SessionSound

(* A put makes its chunk stored and keeps what was stored. *)
LEMMA PutStores ==
  ASSUME CleanInv, pc = "scan", NEW c \in Chunk, PutDuplicate(c) \/ PutNew(c)
  PROVE  /\ UNCHANGED storageVars
         /\ Stored(c)'
         /\ \A e \in Chunk : Stored(e) => Stored(e)'
         /\ flushing' # "no" => c \in Ids(pending')
         /\ pending' = writer' \cup staged'
         /\ flushing' = "no" => staged' = {}
         /\ flushing' # "no" => writer' = {}
         /\ flushing = "no"
<1> USE DEF CleanInv
<1>1. CASE PutDuplicate(c)
  <2>1. ~Dangling(c)
    BY NoDangling DEF SafeInv, PhaseSound, TypeOK, GCTypeOK
  <2>2. Stored(c)
    BY <1>1, <2>1 DEF PutDuplicate, Has, Stored, Located, Dangling
  <2> QED  BY <1>1, <2>2 DEF PutDuplicate, sessionVars, storageVars, Stored,
                             Located, Indexed, SessionSound
<1>2. CASE PutNew(c)
  <2>1. PICK n \in Nonce :
          /\ pending' = pending \cup {<<c, n>>}
          /\ LET w == writer \cup {<<c, n>>} IN
             IF Cardinality(w) >= PackSize
             THEN BeginFlush(w)
             ELSE writer' = w /\ UNCHANGED <<staged, flushing>>
    BY <1>2 DEF PutNew
  <2>2. c \in Ids(pending') /\ Ids(pending) \subseteq Ids(pending')
    BY <2>1 DEF Ids
  <2>3. flushing = "no" /\ UNCHANGED storageVars
    BY <1>2 DEF PutNew
  <2>4. /\ pending' = writer' \cup staged'
        /\ flushing' = "no" => staged' = {}
        /\ flushing' # "no" => writer' = {}
    BY <2>1, <2>3 DEF BeginFlush, SessionSound
  <2> QED  BY <2>2, <2>3, <2>4 DEF Stored, Located, Indexed, storageVars
<1> QED  BY <1>1, <1>2

(* The sweep runs outside every backup. *)
LEMMA CollectClean ==
  ASSUME CleanInv, [Next]_vars, CollectStep
  PROVE  Settled' /\ SessionSound' /\ BackupSound'
<1> USE DEF CleanInv
<1>1. SessionSound' /\ BackupSound'
  BY DEF CollectStep, sessionVars, backupVars, SessionSound, BackupSound
<1>2. \A c \in Chunk : Dangling(c)' => Dangling(c) \/ c \in doomed'
  BY DanglesStep DEF DanglesOnlyWhenDoomed
<1>3. ASSUME NEW p \in todo, SweepDead(p) \/ SweepDefer(p) \/ RepackWrite(p)
      PROVE  Settled'
  <2>1. doomed \subseteq doomed' /\ gc = "sweep" /\ gc' \in {"sweep", "repoint"}
        /\ todo' = todo \ {p} /\ packs \ {p} \subseteq packs'
        /\ (gc' = "repoint" => old' = p)
    BY <1>3 DEF SweepDead, SweepDefer, RepackWrite, storageVars
  <2> QED  BY <1>2, <2>1 DEF Settled
<1>4. CASE RepackIndex
  BY <1>1, <1>2, <1>4 DEF RepackIndex, Settled
<1>5. CASE RepackDrop
  BY <1>1, <1>2, <1>5 DEF RepackDrop, Settled
<1>6. CASE RemoveDead
  <2>1. \A c \in Chunk : ~Dangling(c)'
    BY <1>6 DEF RemoveDead, RemoveIds, Settled, Dangling, Indexed
  <2> QED  BY <1>1, <1>6, <2>1 DEF RemoveDead, Settled
<1>7. ASSUME NEW p \in orphs, AdoptOrphan(p) \/ DeleteOrphan(p)
      PROVE  Settled'
  <2>1. doomed = {} /\ doomed' = {} /\ gc' = "orphans"
    BY <1>7 DEF AdoptOrphan, DeleteOrphan, Settled
  <2>2. \A c \in Chunk : ~Dangling(c)'
    BY <1>2, <2>1 DEF Settled
  <2> QED  BY <2>1, <2>2 DEF Settled
<1> QED
  BY <1>1, <1>3, <1>4, <1>5, <1>6, <1>7 DEF CollectStep

(* When the record is written, nothing is pending any more. *)
LEMMA RecordedStored ==
  ASSUME CleanInv, WriteSnapshot
  PROVE  \A c \in Reachable(kept) : Located(c)
<1>1. pc = "final" /\ flushing = "no" /\ writer = {} /\ pending = {}
  BY DEF CleanInv, WriteSnapshot, SessionSound
<1> QED  BY <1>1 DEF CleanInv, BackupSound, Stored, Ids, Reachable

(* Only the end of a backup adds a record. *)
LEMMA RecordsShrink ==
  ASSUME [Next]_vars, ~WriteSnapshot
  PROVE  snaps' \subseteq snaps
BY DEF Next, Operate, BeginBackup, BeginPrune, BeginRebuild, ScanFile,
       StoreRoot, FinalFlush, FlushPublish, FlushReturn, FlushSwallowed,
       LoadSnapshots, SnapshotMissing, MarkSnapshot, TreeMissing, BeginCollect,
       CollectStep, CollectFails, PruneDone, RebuildPack, RebuildDone, Forget,
       CloseFlush, NewSession, Stop, Raise, vars

(* The snapshot records that survive a step keep their chunks; a new one   *)
(* has them all in the index.                                              *)
LEMMA FindableStep ==
  ASSUME CleanInv, [Next]_vars
  PROVE  SnapshotsFindable'
<1> USE DEF CleanInv
<1>1. CASE WriteSnapshot
  <2>1. UNCHANGED storageVars
    BY <1>1 DEF WriteSnapshot
  <2>2. \A c \in Reachable(kept) : Located(c)
    BY <1>1, RecordedStored
  <2>3. \A c : Findable(c) => Findable(c)'
    BY <2>1 DEF storageVars, Findable, Located, Indexed, OrphanPacks, IndexedPacks
  <2>4. Referenced' \subseteq Referenced \cup Reachable(kept)
    BY <1>1 DEF WriteSnapshot, Referenced, Listing
  <2> QED  BY <2>2, <2>3, <2>4 DEF SnapshotsFindable, Findable
<1>2. CASE ~WriteSnapshot
  <2>1. snaps' \subseteq snaps
    BY <1>2, RecordsShrink
  <2>2. Referenced' \subseteq Referenced
    BY <2>1 DEF Referenced, Listing
  <2> QED  BY <2>2, KeepsStep DEF SnapshotsFindable, KeepsReferenced
<1> QED  BY <1>1, <1>2

LEMMA CleanInit == Init => CleanInv
BY SafeInit
   DEF Init, StorageInit, StoreInit, GCIdle, CleanInv, Settled, SessionSound,
       BackupSound, SnapshotsFindable, Referenced, Dangling, Indexed, NoPack

LEMMA CleanStep ==
  ASSUME CleanFaults, CleanInv, [Next]_vars
  PROVE  CleanInv'
<1> USE DEF CleanInv
<1>s. SafeInv' /\ SnapshotsFindable'
  BY SafeStep, FindableStep
<1>g. \/ gc = "no" /\ pc # "collect"
      \/ gc # "no" /\ pc = "collect"
  BY DEF SafeInv, PhaseSound, TypeOK, GCTypeOK
<1>1. CASE BeginBackup
  BY <1>s, <1>1, SettledFrame
     DEF BeginBackup, sessionVars, SessionSound, BackupSound, Stored
<1>2. ASSUME NEW d \in src, ScanFile(d)
      PROVE  CleanInv'
  <2>1. FileChunk(d) \in Chunk /\ \A e \in kept : FileChunk(e) \in Chunk
    BY ChunkTypes DEF SafeInv, TypeOK
  <2>2. /\ pc = "scan" /\ pc' = "scan" /\ UNCHANGED gcVars
        /\ PutDuplicate(FileChunk(d)) \/ PutNew(FileChunk(d))
        /\ IF flushing' = "no"
           THEN kept' = kept \cup {d} /\ cur' = cur
           ELSE kept' = kept /\ cur' = {d}
    BY <1>2 DEF ScanFile
  <2>3. /\ UNCHANGED storageVars
        /\ Stored(FileChunk(d))'
        /\ \A e \in Chunk : Stored(e) => Stored(e)'
        /\ flushing' # "no" => FileChunk(d) \in Ids(pending')
        /\ pending' = writer' \cup staged'
        /\ flushing' = "no" => staged' = {}
        /\ flushing' # "no" => writer' = {}
        /\ flushing = "no"
    BY <2>1, <2>2, PutStores
  <2>4. \A e \in kept' : Stored(FileChunk(e))'
    BY <2>1, <2>2, <2>3 DEF BackupSound
  <2>5. SessionSound'
    BY <2>2, <2>3 DEF SessionSound
  <2>6. BackupSound'
    BY <2>2, <2>3, <2>4 DEF BackupSound, SessionSound
  <2> QED  BY <1>s, <2>2, <2>3, <2>5, <2>6, SettledFrame
<1>3. CASE StoreRoot
  <2>1. PICK t \in Chunk : t = TreeChunk(kept)
    BY ChunkTypes DEF SafeInv, TypeOK
  <2>2. /\ pc = "scan" /\ pc' = "final" /\ UNCHANGED <<gcVars, backupVars>>
        /\ src = {}
        /\ PutDuplicate(t) \/ PutNew(t)
    BY <1>3, <2>1 DEF StoreRoot
  <2>3. /\ UNCHANGED storageVars
        /\ Stored(t)'
        /\ \A e \in Chunk : Stored(e) => Stored(e)'
        /\ pending' = writer' \cup staged'
        /\ flushing' = "no" => staged' = {}
        /\ flushing' # "no" => writer' = {}
        /\ flushing = "no"
    BY <2>2, PutStores
  <2>4. cur = {} /\ cur' = {} /\ kept' = kept /\ src' = {}
    BY <2>2, <2>3 DEF SessionSound, backupVars
  <2>5. SessionSound'
    BY <2>3, <2>4 DEF SessionSound
  <2>6. \A d \in kept : Stored(FileChunk(d))'
    <3> TAKE d \in kept
    <3>1. FileChunk(d) \in Chunk /\ Stored(FileChunk(d))
      BY <2>2, ChunkTypes DEF SafeInv, TypeOK, BackupSound
    <3> QED  BY <2>3, <3>1
  <2>7. Stored(TreeChunk(kept))'
    BY <2>1, <2>3, <2>4 DEF Stored, Located, Indexed, TreeChunk
  <2>8. BackupSound'
    BY <2>2, <2>4, <2>6, <2>7 DEF BackupSound
  <2> QED  BY <1>s, <2>2, <2>3, <2>5, <2>8, SettledFrame
<1>4. CASE FinalFlush \/ CloseFlush
  <2>1. /\ flushing = "no" /\ flushing' # "no"
        /\ staged' = writer /\ writer' = {} /\ pending' = pending
        /\ pc' = pc
        /\ UNCHANGED <<storageVars, gcVars, backupVars>>
    BY <1>4 DEF FinalFlush, CloseFlush, Flush, BeginFlush
  <2>2. SessionSound'
    BY <2>1 DEF SessionSound
  <2>3. BackupSound'
    BY <2>1 DEF BackupSound, Stored, Located, Indexed, backupVars, storageVars
  <2> QED  BY <1>s, <2>1, <2>2, <2>3, SettledFrame
<1>5. CASE WriteSnapshot
  <2>1. /\ ResetOperation /\ UNCHANGED <<storageVars, sessionVars>>
        /\ flushing = "no" /\ gc = "no"
    BY <1>5, <1>g DEF WriteSnapshot
  <2>2. SessionSound'
    BY <2>1 DEF SessionSound, sessionVars, ResetOperation
  <2> QED  BY <1>s, <2>1, <2>2, NoDangling, EndClean
<1>6. CASE FlushPublish
  <2>1. /\ gc = "no" /\ UNCHANGED gcVars /\ pc' = pc
        /\ flushing # "no" /\ flushing' # "no"
        /\ packs' = packs \cup {staged}
        /\ UNCHANGED <<index, writer, pending, staged, backupVars>>
    BY <1>6, <1>g DEF FlushPublish, PublishPack, SafeInv, FlushSound
  <2>2. Settled'
    BY <2>1, SettledOutside DEF gcVars
  <2>3. SessionSound' /\ BackupSound'
    BY <2>1 DEF SessionSound, BackupSound, Stored, Located, Indexed, backupVars
  <2> QED  BY <1>s, <2>2, <2>3
<1>7. CASE FlushReturn
  <2>1. /\ gc = "no" /\ UNCHANGED gcVars /\ pc' = pc
        /\ flushing = "index" /\ flushing' = "no"
        /\ staged \in packs /\ packs' = packs /\ index' = AddPack(staged)
        /\ writer' = writer /\ pending' = {} /\ staged' = {}
        /\ kept' = kept \cup cur /\ cur' = {} /\ src' = src
    BY <1>7, <1>g DEF FlushReturn, IndexPack, SafeInv, FlushSound
  <2>2. Settled'
    BY <2>1, SettledOutside DEF gcVars
  <2>3. SessionSound' /\ pending = staged
    BY <2>1 DEF SessionSound
  <2>4. \A c \in Chunk : Stored(c) => Stored(c)'
    BY <2>1, <2>3 DEF Stored, Located, Indexed, AddPack, Ids, NoPack
  <2>5. \A d \in kept \cup cur : Stored(FileChunk(d)) => Stored(FileChunk(d))'
    BY <2>4, ChunkTypes DEF SafeInv, TypeOK
  <2>6. pc \in {"scan", "final"} => \A d \in kept' : Stored(FileChunk(d))'
    BY <2>1, <2>5 DEF BackupSound, Stored
  <2>7. pc = "final" => kept' = kept /\ Stored(TreeChunk(kept))'
    BY <2>1, <2>4, ChunkTypes DEF BackupSound, SafeInv, TypeOK
  <2>8. BackupSound'
    BY <2>1, <2>6, <2>7 DEF BackupSound, Stored, Located, Indexed
  <2> QED  BY <1>s, <2>2, <2>3, <2>8
<1>8. CASE Forget
  <2>1. UNCHANGED <<storageVars, gcVars, sessionVars, pc, backupVars>>
    BY <1>8 DEF Forget
  <2> QED  BY <1>s, <2>1, SettledFrame
              DEF SessionSound, BackupSound, Stored, Located, Indexed,
                  sessionVars, storageVars, backupVars
<1>9. CASE BeginPrune \/ LoadSnapshots
  <2>1. /\ UNCHANGED <<storageVars, gcVars, sessionVars, backupVars>>
        /\ pc \notin {"scan", "final"} /\ pc' \notin {"scan", "final"}
    BY <1>9 DEF BeginPrune, LoadSnapshots
  <2> QED  BY <1>s, <2>1, SettledFrame
              DEF SessionSound, BackupSound, sessionVars, backupVars
<1>10. CASE SnapshotMissing \/ TreeMissing \/ CollectFails \/ Stop
  <2>1. \A c \in Chunk : ~Dangling(c)
    <3>1. CASE SnapshotMissing \/ TreeMissing
      BY <1>g, <3>1, NoDangling DEF SnapshotMissing, TreeMissing
    <3>2. ~CollectFails
      BY DEF CollectFails, PackMissing, Settled
    <3>3. CASE Stop
      BY <3>3 DEF Stop, Unsettled, CleanFaults, Settled
    <3> QED  BY <1>10, <3>1, <3>2, <3>3
  <2>2. Raise
    BY <1>10 DEF SnapshotMissing, TreeMissing, CollectFails, Stop
  <2>3. ResetOperation /\ Discard /\ UNCHANGED storageVars
    BY <2>2 DEF Raise, CleanFaults
  <2> QED  BY <1>s, <2>1, <2>3, EndClean, DiscardSession DEF ResetOperation
<1>11. ASSUME NEW x \in marks, MarkSnapshot(x)
       PROVE  CleanInv'
  <2>1. /\ pc = "mark" /\ pc' = "mark" /\ gc = "no" /\ gc' = "no"
        /\ UNCHANGED <<storageVars, sessionVars, backupVars, doomed>>
    BY <1>11, <1>g DEF MarkSnapshot
  <2>2. Settled'
    BY <2>1, SettledOutside
  <2> QED  BY <1>s, <2>1, <2>2
              DEF SessionSound, BackupSound, sessionVars, backupVars
<1>12. CASE BeginCollect
  <2>1. /\ gc = "no" /\ gc' = "sweep" /\ doomed' = doomed /\ doomed = {}
        /\ pc' = "collect" /\ pc = "mark"
        /\ todo' \subseteq IndexedPacks
        /\ UNCHANGED <<storageVars, sessionVars, backupVars>>
    BY <1>12, <1>g DEF BeginCollect, Classify, Settled
  <2>2. \A c \in Chunk : ~Dangling(c)
    BY <2>1, NoDangling
  <2>3. IndexedPacks \subseteq packs
    BY <2>2 DEF IndexedPacks, Dangling, Indexed
  <2>4. Settled'
    BY <2>1, <2>2, <2>3 DEF Settled, storageVars, Dangling, Indexed
  <2> QED  BY <1>s, <2>1, <2>4
              DEF SessionSound, BackupSound, sessionVars, backupVars
<1>13. CASE CollectStep
  BY <1>s, <1>13, CollectClean
<1>14. CASE PruneDone \/ RebuildDone
  <2>1. gc \in {"no", "orphans"}
    BY <1>14, <1>g DEF PruneDone, RebuildDone, Collected
  <2>2. ResetOperation /\ UNCHANGED <<storageVars, sessionVars>>
    BY <1>14 DEF PruneDone, RebuildDone
  <2>3. SessionSound'
    BY <2>2 DEF SessionSound, sessionVars, ResetOperation
  <2> QED  BY <1>s, <2>1, <2>2, <2>3, NoDangling, EndClean
<1>15. CASE BeginRebuild \/ \E p \in unscanned : RebuildPack(p)
  <2>1. /\ gc = "no" /\ UNCHANGED <<gcVars, sessionVars, backupVars>>
        /\ pc' = "rebuild" /\ pc \in {"idle", "rebuild"}
    BY <1>15, <1>g DEF BeginRebuild, RebuildPack
  <2>2. Settled'
    BY <2>1, SettledOutside DEF gcVars
  <2> QED  BY <1>s, <2>1, <2>2
              DEF SessionSound, BackupSound, sessionVars, backupVars
<1>16. CASE NewSession
  <2>1. /\ Discard /\ pc = "idle" /\ pc' = pc
        /\ UNCHANGED <<storageVars, gcVars, backupVars>>
    BY <1>16 DEF NewSession
  <2>2. cur = {} /\ cur' = {} /\ kept' = kept
    BY <2>1 DEF BackupSound, backupVars
  <2> QED  BY <1>s, <2>1, <2>2, SettledFrame, DiscardSession DEF BackupSound
<1>17. CASE UNCHANGED vars
  BY <1>s, <1>17, SettledFrame
     DEF vars, SessionSound, BackupSound, Stored, Located, Indexed,
         sessionVars, storageVars, backupVars
<1>18. ~FlushSwallowed
  BY DEF FlushSwallowed, CleanFaults
<1> QED
  BY <1>1, <1>2, <1>3, <1>4, <1>5, <1>6, <1>7, <1>8, <1>9, <1>10, <1>11,
     <1>12, <1>13, <1>14, <1>15, <1>16, <1>17, <1>18
     DEF Next, Operate

(* The strengthened invariant holds throughout. *)
LEMMA CleanCorrect ==
  ASSUME CleanFaults
  PROVE  Spec => []CleanInv
<1>1. CleanInv /\ [Next]_vars => CleanInv'
  BY CleanStep
<1> QED  BY <1>1, CleanInit, PTL DEF Spec

(* SnapshotsFindable: as long as only stops and interrupted rebuilds       *)
(* happen, every chunk of every snapshot record is findable at every       *)
(* instant.                                                                *)
THEOREM SnapshotsStayFindable ==
  ASSUME CleanFaults
  PROVE  Spec => []SnapshotsFindable
<1>1. CleanInv => SnapshotsFindable
  BY DEF CleanInv
<1> QED  BY <1>1, CleanCorrect, PTL

(* SnapshotAfterChunks: when a snapshot record appears, the index already  *)
(* locates everything it reaches.                                          *)
THEOREM SnapshotsComeLast ==
  ASSUME CleanFaults
  PROVE  Spec => SnapshotAfterChunks
<1>1. ASSUME CleanInv, [Next]_vars
      PROVE  RecordedIsDurable
  <2>1. CASE WriteSnapshot
    <3>1. \A x \in snaps' \ snaps : Listing(x) = kept
      BY <2>1 DEF WriteSnapshot, Listing
    <3> QED  BY <1>1, <2>1, <3>1, RecordedStored DEF RecordedIsDurable
  <2>2. CASE ~WriteSnapshot
    BY <1>1, <2>2, RecordsShrink DEF RecordedIsDurable
  <2> QED  BY <2>1, <2>2
<1>2. CleanInv /\ [Next]_vars => [RecordedIsDurable]_vars
  BY <1>1
<1> QED  BY <1>2, CleanCorrect, PTL DEF Spec, SnapshotAfterChunks

-----------------------------------------------------------------------------
(* The refinement. *)

(* Every record is in the vault. *)
LEMMA VaultIsSnaps ==
  ASSUME SnapshotsFindable
  PROVE  {x \in snaps : Intact(x)} = snaps
BY DEF SnapshotsFindable, Referenced, Intact

LEMMA VaultStep ==
  ASSUME CleanFaults, CleanInv, CleanInv', [Next]_vars
  PROVE  [Vault!Next]_(Vault!vvars)
<1> DEFINE v == {x \in snaps : Intact(x)}
<1> USE DEF CleanInv
<1>v. v = snaps /\ v' = snaps'
  <2>1. v = snaps
    BY VaultIsSnaps
  <2>2. v' = snaps'
    BY DEF SnapshotsFindable, Referenced, Intact
  <2> QED  BY <2>1, <2>2
<1> HIDE DEF v
<1>s. ASSUME snaps' = snaps, BackedUp' = BackedUp
      PROVE  [Vault!Next]_(Vault!vvars)
  BY <1>s, <1>v DEF v, Vault!vvars
<1>a. ASSUME snaps' = snaps, pc' = "idle"
      PROVE  [Vault!Next]_(Vault!vvars)
  <2>1. BackedUp' = {}
    BY <1>a DEF BackedUp
  <2>2. v' = v
    BY <1>a, <1>v
  <2> QED  BY <2>1, <2>2 DEF v, Vault!vvars, Vault!Next, Vault!Abandon
<1>1. CASE BeginBackup
  <2>1. cur = {} /\ kept = {} /\ BackedUp = {} /\ snaps' = snaps
    BY <1>1 DEF BeginBackup, BackupSound, BackedUp
  <2>2. src' \in Sources /\ BackedUp' = {src'}
    BY <1>1, <2>1 DEF BeginBackup, BackedUp
  <2>3. v' = v
    BY <2>1, <1>v
  <2> QED  BY <2>1, <2>2, <2>3 DEF v, Vault!Next, Vault!Begin
<1>2. ASSUME NEW d \in src, ScanFile(d)
      PROVE  [Vault!Next]_(Vault!vvars)
  <2>1. cur = {}
    BY <1>2 DEF ScanFile, PutDuplicate, PutNew, SessionSound
  <2> QED  BY <1>2, <2>1, <1>s DEF ScanFile, BackedUp
<1>3. CASE StoreRoot
  BY <1>3, <1>s DEF StoreRoot, BackedUp, backupVars
<1>4. CASE WriteSnapshot
  <2>1. BackedUp = {kept} /\ BackedUp' = {}
    BY <1>4 DEF WriteSnapshot, ResetOperation, BackupSound, BackedUp
  <2>2. PICK s \in SnapId :
          /\ \A x \in snaps : x[1] # s
          /\ snaps' = snaps \cup {<<s, kept>>}
    BY <1>4 DEF WriteSnapshot
  <2>3. Vault!Create
    BY <2>1, <2>2, <1>v DEF v, Vault!Create
  <2> QED  BY <2>3 DEF Vault!Next
<1>5. CASE Forget
  <2>1. PICK x \in snaps : snaps' = snaps \ {x}
    BY <1>5 DEF Forget
  <2>2. BackedUp' = BackedUp
    BY <1>5 DEF Forget, backupVars, BackedUp
  <2>3. Vault!Forget
    BY <2>1, <2>2, <1>v DEF v, Vault!Forget
  <2> QED  BY <2>3 DEF Vault!Next
<1>6. CASE \/ FinalFlush \/ FlushPublish \/ CloseFlush \/ NewSession
           \/ UNCHANGED vars
  BY <1>6, <1>s
     DEF FinalFlush, FlushPublish, CloseFlush, NewSession, vars, BackedUp,
         backupVars
<1>7. CASE FlushReturn
  BY <1>7, <1>s DEF FlushReturn, BackedUp
<1>8. CASE \/ BeginPrune \/ LoadSnapshots \/ BeginCollect \/ CollectStep
           \/ BeginRebuild \/ (\E x \in marks : MarkSnapshot(x))
           \/ (\E p \in unscanned : RebuildPack(p))
  <2>1. snaps' = snaps /\ pc' \notin {"scan", "final"} /\ pc \notin {"scan", "final"}
    BY <1>8 DEF BeginPrune, LoadSnapshots, BeginCollect, CollectStep,
                BeginRebuild, MarkSnapshot, RebuildPack
  <2> QED  BY <2>1, <1>s DEF BackedUp
<1>9. CASE SnapshotMissing \/ TreeMissing \/ CollectFails \/ Stop
  BY <1>9, <1>a DEF SnapshotMissing, TreeMissing, CollectFails, Stop, Raise,
                    ResetOperation
<1>10. CASE PruneDone \/ RebuildDone
  BY <1>10, <1>a DEF PruneDone, RebuildDone, ResetOperation
<1>11. ~FlushSwallowed
  BY DEF FlushSwallowed, CleanFaults
<1> QED
  BY <1>1, <1>2, <1>3, <1>4, <1>5, <1>6, <1>7, <1>8, <1>9, <1>10, <1>11
     DEF Next, Operate

(* VaultSpec: the repository implements the snapshot vault.                *)
THEOREM ImplementsVault ==
  ASSUME CleanFaults
  PROVE  Spec => VaultSpec
<1>1. Init => Vault!Init
  BY DEF Init, Vault!Init, BackedUp
<1>2. CleanInv /\ CleanInv' /\ [Next]_vars => [Vault!Next]_(Vault!vvars)
  BY VaultStep
<1> QED  BY <1>1, <1>2, CleanCorrect, PTL DEF Spec, VaultSpec, Vault!Spec

-----------------------------------------------------------------------------
(* Restorability at every instant, on top of CleanInv. *)

(* Together with CleanInv inductive under HistoryNext. *)
RestorableInv == CleanInv /\ SnapshotsRestorable

(* Only a rebuild takes the entry of a referenced chunk out of the index.  *)
LEMMA EntriesKept ==
  ASSUME CleanInv, [Next]_vars, pc' # "rebuild", NEW c \in Referenced, Indexed(c)
  PROVE  Indexed(c)'
<1> USE DEF CleanInv
<1>1. c \in Chunk /\ StorageTypeOK
  BY ReferencedType DEF SafeInv, TypeOK
<1>2. CASE UNCHANGED storageVars
  BY <1>2 DEF storageVars, Indexed
<1>3. ASSUME NEW p \in packs, index' = AddPack(p)
      PROVE  Indexed(c)'
  BY <1>1, <1>3 DEF AddPack, Indexed, Ids, NoPack
<1>4. CASE index' = index
  BY <1>4 DEF Indexed
<1>5. CASE RemoveDead
  <2>1. pc = "collect" /\ doomed \cap live = {}
    BY <1>5 DEF RemoveDead, SafeInv, PhaseSound, SweepSound
  <2>2. c \notin doomed
    BY <2>1, ReferencedLive
  <2> QED  BY <1>1, <1>5, <2>2 DEF RemoveDead, RemoveIds, Indexed
<1>6. CASE \/ pc = "collect" /\ \E p \in todo : SweepDead(p)
           \/ pc = "collect" /\ RepackDrop
           \/ pc = "collect" /\ \E p \in orphs : DeleteOrphan(p)
  BY <1>4, <1>6 DEF SweepDead, RepackDrop, DeleteOrphan
<1> QED  BY <1>2, <1>3, <1>4, <1>5, <1>6, StorageSteps

LEMMA RestorableStep ==
  ASSUME CleanFaults, RestorableInv, [HistoryNext]_historyVars
  PROVE  RestorableInv'
<1> USE DEF RestorableInv, CleanInv
<1>n. [Next]_vars
  BY DEF HistoryNext, historyVars
<1>c. CleanInv'
  BY <1>n, CleanStep
<1>1. CASE UNCHANGED historyVars
  BY <1>1, <1>c
     DEF historyVars, vars, storageVars, SnapshotsRestorable, Referenced,
         Located, Indexed
<1>2. CASE HistoryNext /\ whole'
  <2>1. pc' # "rebuild" /\ (whole \/ (pc = "rebuild" /\ unscanned = {}))
    BY <1>2 DEF HistoryNext, Record
  (* Before the step every chunk that a record reaches is located. *)
  <2>2. \A c \in Referenced : Located(c)
    <3>1. CASE whole
      BY <3>1 DEF SnapshotsRestorable
    <3>2. CASE pc = "rebuild" /\ unscanned = {}
      <4> TAKE c \in Referenced
      <4>1. c \in Chunk /\ Findable(c)
        BY ReferencedType DEF SafeInv, TypeOK, SnapshotsFindable
      <4>2. \A p \in packs : c \in Ids(p) => Indexed(c)
        BY <3>2, <4>1 DEF SafeInv, RebuildSound
      <4> QED  BY <4>1, <4>2 DEF Findable, OrphanPacks
    <3> QED  BY <2>1, <3>1, <3>2
  <2>3. CASE WriteSnapshot
    <3>1. Referenced' \subseteq Referenced \cup Reachable(kept)
      BY <2>3 DEF WriteSnapshot, Referenced, Listing
    <3>2. \A c : Located(c) => Located(c)'
      BY <2>3 DEF WriteSnapshot, storageVars, Located, Indexed
    <3>3. \A c \in Reachable(kept) : Located(c)
      BY <2>3, RecordedStored
    <3> QED  BY <1>c, <2>2, <3>1, <3>2, <3>3 DEF SnapshotsRestorable
  <2>4. CASE ~WriteSnapshot
    <3>1. Referenced' \subseteq Referenced
      BY <1>n, <2>4, RecordsShrink DEF Referenced, Listing
    <3>2. \A c \in Referenced' : Indexed(c)'
      BY <1>n, <2>1, <2>2, <3>1, EntriesKept DEF Located
    <3>3. \A c \in Referenced' : Findable(c)'
      BY <1>c DEF SnapshotsFindable
    <3> QED  BY <1>c, <3>2, <3>3 DEF SnapshotsRestorable, Findable
  <2> QED  BY <2>3, <2>4
<1>3. CASE ~whole'
  BY <1>3, <1>c DEF SnapshotsRestorable
<1> QED  BY <1>1, <1>2, <1>3

(* CleanInv: whatever runs, the index and the session say the truth about  *)
(* what is stored, except for what a running sweep has doomed.             *)
THEOREM CleanHolds ==
  ASSUME CleanFaults
  PROVE  Spec => []CleanInv
BY CleanCorrect

(* SnapshotsRestorable: as long as only stops and interrupted rebuilds     *)
(* happen, every snapshot is restorable at every instant that is not       *)
(* between the start of a rebuild and the end of the next complete one.    *)
THEOREM SnapshotsStayRestorable ==
  ASSUME CleanFaults
  PROVE  HistorySpec => []SnapshotsRestorable
<1>1. HistoryInit => RestorableInv
  BY CleanInit
     DEF HistoryInit, RestorableInv, SnapshotsRestorable, Init, Referenced
<1>2. RestorableInv /\ [HistoryNext]_historyVars => RestorableInv'
  BY RestorableStep
<1>3. RestorableInv => SnapshotsRestorable
  BY DEF RestorableInv
<1> QED  BY <1>1, <1>2, <1>3, PTL DEF HistorySpec
=============================================================================
