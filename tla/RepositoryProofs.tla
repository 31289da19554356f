-------------------------- MODULE RepositoryProofs --------------------------
(***************************************************************************)
(* Type correctness of Repository, the inductive invariant SafeInv under   *)
(* every fault, and the two action properties that follow from it: no      *)
(* operation loses a chunk that a snapshot reaches, and only the dead of a *)
(* running sweep come to dangle.                                           *)
(***************************************************************************)
EXTENDS RepositoryInv, TLAPS

(* Storage: what each kind of update of the packs and the index keeps      *)
(* findable.                                                               *)

(* Entries and blobs are well-typed chunks. *)
LEMMA IdsType ==
  ASSUME NEW p \in Pack
  PROVE  Ids(p) \subseteq Chunk
BY DEF Ids, Pack, Sealed

LEMMA ReachableType ==
  ASSUME NEW S \in SUBSET Data
  PROVE  Reachable(S) \subseteq Chunk
BY DEF Reachable, Chunk

LEMMA IndexedPacksType ==
  ASSUME StorageTypeOK
  PROVE  IndexedPacks \subseteq Pack
BY DEF StorageTypeOK, IndexedPacks

LEMMA AddPackType ==
  ASSUME StorageTypeOK, NEW p \in Pack
  PROVE  AddPack(p) \in [Chunk -> Pack]
BY DEF StorageTypeOK, AddPack

LEMMA RemoveIdsType ==
  ASSUME StorageTypeOK, NEW C
  PROVE  RemoveIds(C) \in [Chunk -> Pack]
BY DEF StorageTypeOK, RemoveIds, NoPack, Pack

LEMMA EmptyIndexType == EmptyIndex \in [Chunk -> Pack]
BY DEF EmptyIndex, NoPack, Pack

-----------------------------------------------------------------------------

(* Indexing a stored pack keeps every chunk findable: what it overwrites   *)
(* moves into the pack, and no other orphan pack stops being one.          *)
LEMMA AddPackKeeps ==
  ASSUME StorageTypeOK, NEW p \in packs,
         index' = AddPack(p), packs' = packs,
         NEW c \in Chunk, Findable(c)
  PROVE  Findable(c)'
<1>1. CASE c \in Ids(p)
  <2>1. index'[c] = p /\ p # NoPack
    BY <1>1 DEF AddPack, Ids, NoPack
  <2> QED  BY <2>1 DEF Findable, Located, Indexed
<1>2. CASE c \notin Ids(p)
  <2>1. index'[c] = index[c]
    BY <1>2 DEF AddPack
  <2>2. CASE Located(c)
    BY <2>1, <2>2 DEF Findable, Located, Indexed
  <2>3. CASE ~Located(c)
    <3>1. PICK q \in OrphanPacks : c \in Ids(q)
      BY <2>3 DEF Findable
    <3>2. q \notin IndexedPacks'
      BY <3>1, <1>2 DEF OrphanPacks, IndexedPacks, AddPack
    <3> QED  BY <2>1, <2>3, <3>1, <3>2 DEF Findable, Indexed, OrphanPacks, Located
  <2> QED  BY <2>2, <2>3
<1> QED  BY <1>1, <1>2

(* Publishing a pack takes nothing away. *)
LEMMA PublishKeeps ==
  ASSUME NEW p, packs' = packs \cup {p}, index' = index,
         NEW c \in Chunk, Findable(c)
  PROVE  Findable(c)'
BY DEF Findable, Located, Indexed, OrphanPacks, IndexedPacks

(* Emptying the index turns every pack into an orphan pack. *)
LEMMA ClearKeeps ==
  ASSUME index' = EmptyIndex, packs' = packs,
         NEW c \in Chunk, Indexed(c) => c \in Ids(index[c]), Findable(c)
  PROVE  Findable(c)'
<1>1. ~Indexed(c)' /\ IndexedPacks' = {}
  BY DEF EmptyIndex, Indexed, IndexedPacks
<1>2. \E p \in packs : c \in Ids(p)
  BY DEF Findable, Located, OrphanPacks
<1> QED  BY <1>1, <1>2 DEF Findable, OrphanPacks

(* Deleting a pack loses only what the index locates in it, or what it     *)
(* alone holds as an orphan.                                               *)
LEMMA DeleteKeeps ==
  ASSUME NEW p, packs' = packs \ {p}, index' = index,
         NEW c \in Chunk, Indexed(c) => index[c] # p,
         p \in IndexedPacks \/ c \notin Ids(p),
         Findable(c)
  PROVE  Findable(c)'
BY DEF Findable, Located, Indexed, OrphanPacks, IndexedPacks

(* Dropping the entries of other chunks. *)
LEMMA RemoveKeeps ==
  ASSUME StorageTypeOK, NEW C, index' = RemoveIds(C), packs' = packs,
         NEW c \in Chunk \ C, Findable(c)
  PROVE  Findable(c)'
<1>1. index'[c] = index[c]
  BY DEF RemoveIds
<1>2. IndexedPacks' \subseteq IndexedPacks
  BY DEF IndexedPacks, RemoveIds
<1> QED  BY <1>1, <1>2 DEF Findable, Located, Indexed, OrphanPacks

(* Without a change of the storage nothing changes. *)
LEMMA StutterKeeps ==
  ASSUME packs' = packs, index' = index, NEW c \in Chunk, Findable(c)
  PROVE  Findable(c)'
BY DEF Findable, Located, Indexed, OrphanPacks, IndexedPacks

-----------------------------------------------------------------------------
(* Repository: type correctness. *)

(* The definitions that type correctness unfolds everywhere. *)
LEMMA ChunkTypes ==
  /\ \A d \in Data : FileChunk(d) \in Chunk
  /\ \A S \in SUBSET Data : TreeChunk(S) \in Chunk
  /\ \A c \in Chunk, n \in Nonce : <<c, n>> \in Sealed
  /\ NoPack \in Pack
BY DEF Chunk, Sealed, Pack, NoPack

LEMMA PutType ==
  ASSUME TypeOK, NEW c \in Chunk, PutNew(c) \/ PutDuplicate(c)
  PROVE  StorageTypeOK' /\ StoreTypeOK'
<1>1. CASE PutDuplicate(c)
  BY <1>1 DEF TypeOK, StorageTypeOK, StoreTypeOK, PutDuplicate, storageVars,
              sessionVars
<1>2. CASE PutNew(c)
  <2>1. PICK n \in Nonce :
          /\ pending' = pending \cup {<<c, n>>}
          /\ LET w == writer \cup {<<c, n>>} IN
             IF Cardinality(w) >= PackSize
             THEN BeginFlush(w)
             ELSE writer' = w /\ UNCHANGED <<staged, flushing>>
    BY <1>2 DEF PutNew
  <2>2. writer \cup {<<c, n>>} \in Pack /\ pending \cup {<<c, n>>} \in Pack
    BY ChunkTypes DEF TypeOK, StoreTypeOK, Pack
  <2>3. StorageTypeOK'
    BY <1>2 DEF PutNew, TypeOK, StorageTypeOK, storageVars
  <2>4. StoreTypeOK'
    BY <2>1, <2>2, ChunkTypes
       DEF TypeOK, StoreTypeOK, BeginFlush, NoPack
  <2> QED  BY <2>3, <2>4
<1> QED  BY <1>1, <1>2

(* collect() ends: its variables are back at their initial values.         *)
LEMMA EndGCType ==
  ASSUME EndGC
  PROVE  GCTypeOK'
BY EmptyIndexType, ChunkTypes DEF EndGC, GCTypeOK

LEMMA ResetType ==
  ASSUME ResetOperation
  PROVE  /\ GCTypeOK'
         /\ pc' = "idle"
         /\ src' = {} /\ kept' = {} /\ cur' = {} /\ marks' = {} /\ unscanned' = {}
BY EndGCType DEF ResetOperation

LEMMA RaiseType ==
  ASSUME TypeOK, Raise
  PROVE  TypeOK'
<1>1. StoreTypeOK'
  BY ChunkTypes DEF TypeOK, StoreTypeOK, Raise, Discard, NoPack
<1>2. StorageTypeOK' /\ snaps' = snaps
  BY DEF TypeOK, StorageTypeOK, Raise, storageVars
<1> QED  BY <1>1, <1>2, ResetType DEF Raise, TypeOK

(* Every state of every behavior is well typed. *)
LEMMA TypeStep == TypeOK /\ [Next]_vars => TypeOK'
<1> SUFFICES ASSUME TypeOK, [Next]_vars
             PROVE  TypeOK'
  OBVIOUS
<1> USE DEF TypeOK
<1>1. CASE BeginBackup
  BY <1>1, SourcesAssumption
     DEF BeginBackup, storageVars, sessionVars, gcVars, StorageTypeOK,
         StoreTypeOK, GCTypeOK
<1>2. ASSUME NEW d \in src, ScanFile(d)
      PROVE  TypeOK'
  <2>1. StorageTypeOK' /\ StoreTypeOK'
    BY <1>2, PutType, ChunkTypes DEF ScanFile
  <2> QED  BY <1>2, <2>1 DEF ScanFile, gcVars, GCTypeOK
<1>3. CASE StoreRoot
  <2>1. StorageTypeOK' /\ StoreTypeOK'
    BY <1>3, PutType, ChunkTypes DEF StoreRoot
  <2> QED  BY <1>3, <2>1 DEF StoreRoot, gcVars, backupVars, GCTypeOK
<1>4. CASE FinalFlush \/ CloseFlush
  BY <1>4, ChunkTypes
     DEF FinalFlush, CloseFlush, Flush, BeginFlush, gcVars, backupVars,
         storageVars, StorageTypeOK, StoreTypeOK, GCTypeOK, NoPack
<1>5. CASE WriteSnapshot
  <2>1. snaps' \subseteq Snapshot
    BY <1>5 DEF WriteSnapshot, Snapshot
  <2> QED  BY <1>5, <2>1, ResetType
              DEF WriteSnapshot, storageVars, sessionVars, StorageTypeOK,
                  StoreTypeOK
<1>6. CASE FlushPublish
  BY <1>6 DEF FlushPublish, PublishPack, gcVars, backupVars, StorageTypeOK,
              StoreTypeOK, GCTypeOK
<1>7. CASE FlushReturn
  <2>1. index' \in [Chunk -> Pack]
    BY <1>7, AddPackType DEF FlushReturn, IndexPack, StoreTypeOK
  <2> QED  BY <1>7, <2>1, ChunkTypes
              DEF FlushReturn, IndexPack, gcVars, StorageTypeOK, StoreTypeOK,
                  GCTypeOK, NoPack
<1>8. CASE FlushSwallowed
  BY <1>8, ChunkTypes
     DEF FlushSwallowed, FinalizeFails, gcVars, storageVars, StorageTypeOK,
         StoreTypeOK, GCTypeOK, NoPack
<1>9. CASE Forget
  BY <1>9 DEF Forget, gcVars, storageVars, sessionVars, backupVars,
              StorageTypeOK, StoreTypeOK, GCTypeOK
<1>10. CASE BeginPrune \/ LoadSnapshots
  BY <1>10 DEF BeginPrune, LoadSnapshots, gcVars, storageVars, sessionVars,
               backupVars, StorageTypeOK, StoreTypeOK, GCTypeOK
<1>11. CASE SnapshotMissing \/ TreeMissing \/ CollectFails \/ Stop
  BY <1>11, RaiseType DEF SnapshotMissing, TreeMissing, CollectFails, Stop
<1>12. ASSUME NEW x \in marks, MarkSnapshot(x)
       PROVE  TypeOK'
  <2>1. Reachable(Listing(x)) \subseteq Chunk
    BY ReachableType DEF Snapshot, Listing
  <2> QED  BY <1>12, <2>1
              DEF MarkSnapshot, storageVars, sessionVars, backupVars,
                  StorageTypeOK, StoreTypeOK, GCTypeOK
<1>13. CASE BeginCollect
  BY <1>13, IndexedPacksType
     DEF BeginCollect, Classify, storageVars, sessionVars, backupVars,
         StorageTypeOK, StoreTypeOK, GCTypeOK
<1>14. CASE CollectStep
  <2>1. StoreTypeOK' /\ snaps' = snaps /\ pc' = pc /\ src' = src
        /\ kept' = kept /\ cur' = cur /\ marks' = marks /\ unscanned' = unscanned
    BY <1>14 DEF CollectStep, sessionVars, backupVars, StoreTypeOK
  <2>2. StorageTypeOK' /\ GCTypeOK'
    <3>1. ASSUME NEW p \in todo, SweepDead(p) \/ SweepDefer(p)
          PROVE  StorageTypeOK' /\ GCTypeOK'
      BY <3>1 DEF SweepDead, SweepDefer, DeadIn, storageVars, StorageTypeOK,
                  GCTypeOK
    <3>2. ASSUME NEW p \in todo, RepackWrite(p)
          PROVE  StorageTypeOK' /\ GCTypeOK'
      <4>1. p \in Pack /\ new' \in Pack
        BY <3>2 DEF RepackWrite, GCTypeOK, Pack
      <4> QED  BY <3>2, <4>1 DEF RepackWrite, DeadIn, StorageTypeOK, GCTypeOK
    <3>3. CASE RepackIndex
      BY <3>3, AddPackType DEF RepackIndex, StorageTypeOK, GCTypeOK
    <3>4. CASE RepackDrop
      BY <3>4, ChunkTypes DEF RepackDrop, StorageTypeOK, GCTypeOK
    <3>5. CASE RemoveDead
      BY <3>5, RemoveIdsType
         DEF RemoveDead, OrphanPacks, StorageTypeOK, GCTypeOK
    <3>6. ASSUME NEW p \in orphs, AdoptOrphan(p) \/ DeleteOrphan(p)
          PROVE  StorageTypeOK' /\ GCTypeOK'
      BY <3>6, AddPackType
         DEF AdoptOrphan, DeleteOrphan, StorageTypeOK, GCTypeOK
    <3> QED  BY <1>14, <3>1, <3>2, <3>3, <3>4, <3>5, <3>6 DEF CollectStep
  <2> QED  BY <2>1, <2>2
<1>15. CASE PruneDone \/ RebuildDone
  BY <1>15, ResetType
     DEF PruneDone, RebuildDone, storageVars, sessionVars, StorageTypeOK,
         StoreTypeOK
<1>16. CASE BeginRebuild
  BY <1>16, EmptyIndexType
     DEF BeginRebuild, gcVars, sessionVars, backupVars, StorageTypeOK,
         StoreTypeOK, GCTypeOK
<1>17. ASSUME NEW p \in unscanned, RebuildPack(p)
       PROVE  TypeOK'
  BY <1>17, AddPackType
     DEF RebuildPack, gcVars, sessionVars, backupVars, StorageTypeOK,
         StoreTypeOK, GCTypeOK
<1>18. CASE NewSession
  BY <1>18, ChunkTypes
     DEF NewSession, Discard, gcVars, storageVars, backupVars, StorageTypeOK,
         StoreTypeOK, GCTypeOK, NoPack
<1>19. CASE UNCHANGED vars
  BY <1>19 DEF vars, gcVars, storageVars, sessionVars, backupVars,
               StorageTypeOK, StoreTypeOK, GCTypeOK
<1> QED
  BY <1>1, <1>2, <1>3, <1>4, <1>5, <1>6, <1>7, <1>8, <1>9, <1>10, <1>11,
     <1>12, <1>13, <1>14, <1>15, <1>16, <1>17, <1>18, <1>19
     DEF Next, Operate

LEMMA TypeInit == Init => TypeOK
BY EmptyIndexType, ChunkTypes
   DEF Init, TypeOK, StorageInit, StoreInit, GCIdle, StorageTypeOK,
       StoreTypeOK, GCTypeOK, EmptyIndex, NoPack

(* TypeOK: every variable keeps the type that the actions of backup, prune,  *)
(* rebuild and forget expect.                                                *)
THEOREM TypeCorrect == Spec => []TypeOK
BY TypeInit, TypeStep, PTL DEF Spec

-----------------------------------------------------------------------------
(* SafeInv is inductive. *)

(* No collect() runs after the step: nothing is claimed about a sweep. *)
LEMMA NoGC ==
  ASSUME gc' = "no"
  PROVE  SweepSound' /\ RepackSound' /\ OrphanSound'
BY DEF SweepSound, RepackSound, OrphanSound

(* A step that touches neither the storage nor the sweep. *)
LEMMA Frame ==
  ASSUME SafeInv, UNCHANGED <<storageVars, gcVars>>
  PROVE  IndexSound' /\ SweepSound' /\ RepackSound' /\ OrphanSound'
BY DEF SafeInv, IndexSound, SweepSound, RepackSound, OrphanSound, storageVars,
       gcVars, Indexed, IndexedPacks, LiveIn, DeadIn

LEMMA AddPackSound ==
  ASSUME StorageTypeOK, IndexSound, NEW p, index' = AddPack(p)
  PROVE  /\ IndexSound'
         /\ IndexedPacks' \subseteq IndexedPacks \cup {p}
BY DEF StorageTypeOK, IndexSound, Indexed, IndexedPacks, AddPack

(* An operation ends without a change of the storage. *)
LEMMA ResetSound ==
  ASSUME SafeInv, ResetOperation, UNCHANGED storageVars,
         flushing' = "no" \/ UNCHANGED <<flushing, staged>>
  PROVE  /\ IndexSound' /\ FlushSound' /\ MarkSound' /\ PhaseSound'
         /\ SweepSound' /\ RepackSound' /\ OrphanSound' /\ RebuildSound'
<1>1. gc' = "no" /\ pc' = "idle" /\ doomed' = {}
  BY DEF ResetOperation, EndGC
<1>2. IndexSound'
  BY DEF SafeInv, IndexSound, Indexed, storageVars
<1>3. FlushSound'
  BY <1>1 DEF SafeInv, FlushSound, storageVars
<1>4. MarkSound' /\ PhaseSound' /\ RebuildSound'
  BY <1>1 DEF MarkSound, PhaseSound, RebuildSound
<1> QED  BY <1>1, <1>2, <1>3, <1>4, NoGC

LEMMA RaiseSound ==
  ASSUME SafeInv, Raise
  PROVE  /\ IndexSound' /\ FlushSound' /\ MarkSound' /\ PhaseSound'
         /\ SweepSound' /\ RepackSound' /\ OrphanSound' /\ RebuildSound'
<1>1. flushing' = "no" /\ UNCHANGED storageVars /\ ResetOperation
  BY DEF Raise, Discard
<1> QED  BY <1>1, ResetSound

(* The steps of the sweep keep what it knows. *)
LEMMA SweepStep ==
  ASSUME SafeInv, TypeOK', CollectStep
  PROVE  /\ IndexSound' /\ FlushSound' /\ MarkSound' /\ PhaseSound'
         /\ SweepSound' /\ RepackSound' /\ OrphanSound' /\ RebuildSound'
<1> USE DEF SafeInv
<1>0. /\ pc = "collect" /\ pc' = "collect" /\ flushing = "no"
      /\ flushing' = "no" /\ snaps' = snaps /\ marks' = marks /\ live' = live
      /\ seen' = seen
      /\ gc' # "no"
  BY DEF CollectStep, FlushSound, SweepDead, SweepDefer, RepackWrite,
         RepackIndex, RepackDrop, RemoveDead, AdoptOrphan, DeleteOrphan,
         sessionVars, TypeOK, StoreTypeOK
<1>1. FlushSound' /\ MarkSound' /\ PhaseSound' /\ RebuildSound'
  BY <1>0 DEF FlushSound, MarkSound, PhaseSound, RebuildSound
<1>2. ASSUME NEW p \in todo, SweepDead(p) \/ SweepDefer(p)
      PROVE  IndexSound' /\ SweepSound' /\ RepackSound' /\ OrphanSound'
  <2>1. IndexSound'
    BY <1>2 DEF SweepDead, SweepDefer, storageVars, IndexSound, Indexed
  <2>2. SweepSound'
    BY <1>2 DEF SweepDead, SweepDefer, storageVars, SweepSound, DeadIn, LiveIn,
                TypeOK, GCTypeOK
  <2> QED  BY <1>2, <2>1, <2>2
              DEF SweepDead, SweepDefer, RepackSound, OrphanSound
<1>3. ASSUME NEW p \in todo, RepackWrite(p)
      PROVE  IndexSound' /\ SweepSound' /\ RepackSound' /\ OrphanSound'
  <2>1. IndexSound'
    BY <1>3 DEF RepackWrite, IndexSound, Indexed
  <2>2. SweepSound'
    BY <1>3 DEF RepackWrite, SweepSound, DeadIn, LiveIn, TypeOK, GCTypeOK
  <2>3. RepackSound'
    BY <1>3 DEF RepackWrite, RepackSound, SweepSound, DeadIn, LiveIn
  <2> QED  BY <1>3, <2>1, <2>2, <2>3 DEF RepackWrite, OrphanSound
<1>4. CASE RepackIndex
  <2>1. IndexSound'
    BY <1>4, AddPackSound DEF RepackIndex, TypeOK
  <2>2. PICK d \in Chunk \ live : seen[d] = old
    BY <1>4 DEF RepackIndex, RepackSound, DeadIn
  <2>3. Ids(new) = LiveIn(old)
    <3>1. LiveIn(old) \subseteq Ids(old)
      BY <1>4, <2>2 DEF RepackIndex, RepackSound, SweepSound, LiveIn, TypeOK,
                        GCTypeOK
    <3> QED  BY <1>4, <3>1 DEF RepackIndex, RepackSound, Ids
  <2>4. \A e \in Chunk : seen[e] = new => LiveIn(old) = {}
    <3> SUFFICES ASSUME NEW e \in Chunk, seen[e] = new, LiveIn(old) # {}
                 PROVE  FALSE
      OBVIOUS
    <3>1. new # NoPack
      BY <2>3 DEF Ids, NoPack
    <3>2. e \in LiveIn(old)
      BY <1>4, <2>3, <3>1 DEF RepackIndex, SweepSound
    <3>3. new = old
      BY <3>2 DEF LiveIn
    <3>4. d \in Ids(old)
      BY <1>4, <2>2 DEF RepackIndex, RepackSound, SweepSound
    <3> QED  BY <2>2, <2>3, <3>3, <3>4 DEF LiveIn
  <2>5. SweepSound'
    <3>1. \A c \in Chunk : \/ index'[c] = seen[c]
                           \/ c \in live /\ \A e \in Chunk : seen[e] # index'[c]
      BY <1>4, <2>3, <2>4
         DEF RepackIndex, SweepSound, AddPack, LiveIn, TypeOK, StorageTypeOK
    <3> QED  BY <1>4, <3>1 DEF RepackIndex, SweepSound, DeadIn, LiveIn
  <2>6. \A c \in live : index'[c] # old
    <3> SUFFICES ASSUME NEW c \in live, index'[c] = old
                 PROVE  FALSE
      OBVIOUS
    <3>1. c \in Chunk
      BY DEF TypeOK, GCTypeOK
    <3>2. seen[c] = old
      BY <1>0, <2>2, <2>5, <3>1, <1>4 DEF SweepSound, RepackIndex
    <3>3. c \in Ids(new)
      BY <2>3, <3>2 DEF LiveIn
    <3>4. new = old
      BY <1>4, <3>1, <3>3 DEF RepackIndex, AddPack
    <3> QED  BY <2>4, <3>1, <3>2, <3>4 DEF LiveIn
  <2>7. RepackSound'
    BY <1>0, <1>4, <2>6 DEF RepackIndex, RepackSound, DeadIn, LiveIn
  <2> QED  BY <1>1, <1>4, <2>1, <2>5, <2>7 DEF RepackIndex, OrphanSound
<1>5. CASE RepackDrop
  <2>1. IndexSound' /\ SweepSound'
    BY <1>5 DEF RepackDrop, IndexSound, Indexed, SweepSound, DeadIn, LiveIn
  <2> QED  BY <1>1, <1>5, <2>1 DEF RepackDrop, RepackSound, OrphanSound
<1>6. CASE RemoveDead
  <2>1. IndexSound'
    BY <1>6 DEF RemoveDead, IndexSound, Indexed, RemoveIds
  <2>2. ASSUME NEW p \in IndexedPacks'
        PROVE  Ids(p) \cap live # {}
    <3>1. PICK c \in Chunk : index'[c] = p /\ p # NoPack
      BY DEF IndexedPacks
    <3>2. c \notin doomed /\ index[c] = p
      BY <1>6, <3>1 DEF RemoveDead, RemoveIds
    <3>3. CASE c \in live
      BY <3>1, <3>2, <3>3 DEF IndexSound, Indexed
    <3>4. CASE c \notin live
      <4>1. seen[c] = p /\ LiveIn(p) # {}
        BY <1>6, <3>1, <3>2, <3>4 DEF RemoveDead, SweepSound
      <4>2. PICK d \in live : seen[d] = p
        BY <4>1 DEF LiveIn
      <4> QED  BY <1>6, <3>1, <4>2 DEF RemoveDead, SweepSound, TypeOK, GCTypeOK
    <3> QED  BY <3>3, <3>4
  <2>3. OrphanSound'
    BY <1>6, <2>2 DEF RemoveDead, OrphanSound, OrphanPacks
  <2> QED  BY <1>1, <1>6, <2>1, <2>3 DEF RemoveDead, SweepSound, RepackSound
<1>7. ASSUME NEW p \in orphs, AdoptOrphan(p)
      PROVE  IndexSound' /\ SweepSound' /\ RepackSound' /\ OrphanSound'
  <2>1. IndexSound' /\ IndexedPacks' \subseteq IndexedPacks \cup {p}
    BY <1>7, AddPackSound DEF AdoptOrphan, TypeOK
  <2> QED  BY <1>7, <2>1 DEF AdoptOrphan, SweepSound, RepackSound, OrphanSound
<1>8. ASSUME NEW p \in orphs, DeleteOrphan(p)
      PROVE  IndexSound' /\ SweepSound' /\ RepackSound' /\ OrphanSound'
  BY <1>8 DEF DeleteOrphan, IndexSound, Indexed, IndexedPacks, SweepSound,
              RepackSound, OrphanSound
<1> QED
  BY <1>1, <1>2, <1>3, <1>4, <1>5, <1>6, <1>7, <1>8 DEF CollectStep

LEMMA SafeInit == Init => SafeInv
<1> SUFFICES ASSUME Init
             PROVE  SafeInv
  OBVIOUS
<1>1. TypeOK
  BY TypeInit
<1> QED
  BY <1>1 DEF Init, StorageInit, StoreInit, GCIdle, SafeInv, IndexSound,
              FlushSound, MarkSound, PhaseSound, SweepSound, RepackSound,
              OrphanSound, RebuildSound, Indexed, NoPack

LEMMA SafeStep == SafeInv /\ [Next]_vars => SafeInv'
<1> SUFFICES ASSUME SafeInv, [Next]_vars
             PROVE  SafeInv'
  OBVIOUS
<1> USE DEF SafeInv
<1>t. TypeOK'
  BY TypeStep
<1>1. CASE BeginBackup
  <2>1. gc = "no" /\ UNCHANGED <<storageVars, gcVars>>
    BY <1>1 DEF BeginBackup, PhaseSound, gcVars
  <2> QED  BY <1>t, <1>1, <2>1, Frame
              DEF BeginBackup, FlushSound, MarkSound, PhaseSound, RebuildSound,
                  gcVars, sessionVars
<1>2. ASSUME NEW c \in Chunk, PutDuplicate(c) \/ PutNew(c), pc = "scan",
             pc' \in {"scan", "final"}, UNCHANGED gcVars
      PROVE  SafeInv'
  <2>1. UNCHANGED storageVars /\ (flushing' = "no" \/ flushing' = "finalize")
    BY <1>2 DEF PutDuplicate, PutNew, BeginFlush, sessionVars
  <2> QED  BY <1>t, <1>2, <2>1, Frame
              DEF FlushSound, MarkSound, PhaseSound, RebuildSound, gcVars
<1>3. ASSUME NEW d \in src, ScanFile(d)
      PROVE  SafeInv'
  BY <1>2, <1>3, ChunkTypes DEF ScanFile, TypeOK
<1>4. CASE StoreRoot
  BY <1>2, <1>4, ChunkTypes DEF StoreRoot, TypeOK
<1>5. CASE FinalFlush \/ CloseFlush
  <2>1. /\ pc \in {"final", "idle"} /\ pc' = pc
        /\ flushing' = "finalize"
        /\ UNCHANGED <<storageVars, gcVars>>
    BY <1>5 DEF FinalFlush, CloseFlush, Flush, BeginFlush
  <2> QED  BY <1>t, <2>1, Frame
              DEF FlushSound, MarkSound, PhaseSound, RebuildSound, gcVars
<1>6. CASE WriteSnapshot
  <2>1. flushing' = "no" /\ ResetOperation /\ UNCHANGED storageVars
    BY <1>6 DEF WriteSnapshot, sessionVars
  <2> QED  BY <1>t, <2>1, ResetSound
<1>7. CASE FlushPublish
  <2>1. /\ pc \in {"idle", "scan", "final"} /\ pc' = pc
        /\ gc = "no" /\ gc' = "no" /\ doomed' = doomed
        /\ flushing' = "index" /\ staged' = staged /\ index' = index
        /\ packs' = packs \cup {staged}
    BY <1>7 DEF FlushPublish, PublishPack, FlushSound, PhaseSound, gcVars,
                TypeOK, GCTypeOK
  <2>2. IndexSound'
    BY <2>1 DEF IndexSound, Indexed
  <2> QED  BY <1>t, <2>1, <2>2, NoGC
              DEF FlushSound, MarkSound, PhaseSound, RebuildSound
<1>8. CASE FlushReturn
  <2>1. /\ pc \in {"idle", "scan", "final"} /\ pc' = pc
        /\ gc = "no" /\ gc' = "no" /\ doomed' = doomed
        /\ flushing' = "no" /\ index' = AddPack(staged)
    BY <1>8 DEF FlushReturn, IndexPack, FlushSound, PhaseSound, gcVars,
                TypeOK, GCTypeOK
  <2>2. IndexSound'
    BY <2>1, AddPackSound DEF TypeOK
  <2> QED  BY <1>t, <2>1, <2>2, NoGC
              DEF FlushSound, MarkSound, PhaseSound, RebuildSound
<1>9. CASE FlushSwallowed \/ NewSession
  <2>1. /\ pc \in {"scan", "idle"} /\ pc' = pc
        /\ flushing' = "no"
        /\ UNCHANGED <<storageVars, gcVars>>
    BY <1>9 DEF FlushSwallowed, FinalizeFails, NewSession, Discard
  <2> QED  BY <1>t, <2>1, Frame
              DEF FlushSound, MarkSound, PhaseSound, RebuildSound, gcVars
<1>10. CASE Forget
  <2>1. /\ snaps' \subseteq snaps
        /\ UNCHANGED <<storageVars, sessionVars, gcVars, pc, marks, unscanned>>
    BY <1>10 DEF Forget
  <2> QED  BY <1>t, <2>1, Frame
              DEF FlushSound, MarkSound, PhaseSound, RebuildSound, gcVars,
                  sessionVars, storageVars, Dangling, Indexed
<1>11. CASE BeginPrune \/ LoadSnapshots
  <2>1. /\ pc' \in {"list", "mark"} /\ pc # "collect"
        /\ flushing = "no"
        /\ marks' = IF pc = "idle" THEN snaps ELSE marks
        /\ UNCHANGED <<storageVars, sessionVars, gcVars, snaps>>
    BY <1>11 DEF BeginPrune, LoadSnapshots, FlushSound, TypeOK, StoreTypeOK
  <2>2. MarkSound'
    BY <1>11, <2>1 DEF BeginPrune, LoadSnapshots, MarkSound, gcVars
  <2> QED  BY <1>t, <2>1, <2>2, Frame
              DEF FlushSound, PhaseSound, RebuildSound, gcVars, sessionVars
<1>12. CASE SnapshotMissing \/ TreeMissing \/ CollectFails \/ Stop
  BY <1>t, <1>12, RaiseSound
     DEF SnapshotMissing, TreeMissing, CollectFails, Stop
<1>13. ASSUME NEW x \in marks, MarkSnapshot(x)
       PROVE  SafeInv'
  <2>1. /\ pc = "mark" /\ pc' = "mark" /\ gc = "no" /\ gc' = "no" /\ doomed' = doomed
        /\ flushing = "no" /\ flushing' = "no"
        /\ UNCHANGED <<index, snaps>>
        /\ marks' = marks \ {x}
        /\ live' = live \cup Reachable(Listing(x))
    BY <1>13 DEF MarkSnapshot, FlushSound, PhaseSound, storageVars, sessionVars,
                 TypeOK, StoreTypeOK, GCTypeOK
  <2>2. IndexSound'
    BY <2>1 DEF IndexSound, Indexed
  <2>3. MarkSound'
    BY <2>1 DEF MarkSound
  <2> QED  BY <1>t, <2>1, <2>2, <2>3, NoGC
              DEF FlushSound, PhaseSound, RebuildSound
<1>14. CASE BeginCollect
  <2>1. /\ pc = "mark" /\ pc' = "collect" /\ gc' = "sweep"
        /\ marks = {} /\ marks' = {} /\ snaps' = snaps /\ live' = live
        /\ flushing = "no" /\ flushing' = "no"
        /\ packs' = packs /\ index' = index
        /\ seen' = index /\ doomed' = doomed
        /\ todo' = {p \in IndexedPacks : \E c \in Chunk \ live : index[c] = p}
    BY <1>14 DEF BeginCollect, Classify, FlushSound, storageVars, sessionVars,
                 TypeOK, StoreTypeOK
  <2>2. doomed = {}
    BY <2>1 DEF PhaseSound
  <2>3. IndexSound'
    BY <2>1 DEF IndexSound, Indexed
  <2>4. SweepSound'
    BY <2>1, <2>2 DEF SweepSound, IndexSound, Indexed, IndexedPacks, DeadIn
  <2> QED  BY <1>t, <2>1, <2>3, <2>4
              DEF FlushSound, MarkSound, PhaseSound, RebuildSound, RepackSound,
                  OrphanSound
<1>15. CASE CollectStep
  BY <1>t, <1>15, SweepStep
<1>16. CASE PruneDone \/ RebuildDone
  <2>1. ResetOperation /\ UNCHANGED <<storageVars, sessionVars>>
    BY <1>16 DEF PruneDone, RebuildDone
  <2> QED  BY <1>t, <2>1, ResetSound DEF sessionVars
<1>17. CASE BeginRebuild
  <2>1. /\ pc = "idle" /\ pc' = "rebuild" /\ gc = "no" /\ gc' = "no" /\ doomed' = doomed
        /\ flushing = "no" /\ flushing' = "no"
        /\ packs' = packs /\ unscanned' = packs /\ index' = EmptyIndex
    BY <1>17 DEF BeginRebuild, PhaseSound, gcVars, sessionVars, TypeOK, GCTypeOK
  <2>2. IndexSound'
    BY <2>1 DEF IndexSound, Indexed, EmptyIndex
  <2>3. RebuildSound'
    BY <2>1 DEF RebuildSound, Dangling, Indexed, EmptyIndex
  <2> QED  BY <1>t, <2>1, <2>2, <2>3, NoGC
              DEF FlushSound, MarkSound, PhaseSound
<1>18. ASSUME NEW p \in unscanned, RebuildPack(p)
       PROVE  SafeInv'
  <2>1. /\ pc = "rebuild" /\ pc' = "rebuild" /\ gc = "no" /\ gc' = "no" /\ doomed' = doomed
        /\ flushing = "no" /\ flushing' = "no"
        /\ packs' = packs /\ unscanned' = unscanned \ {p} /\ index' = AddPack(p)
    BY <1>18 DEF RebuildPack, FlushSound, PhaseSound, gcVars, sessionVars,
                 TypeOK, StoreTypeOK, GCTypeOK
  <2>2. IndexSound'
    BY <2>1, AddPackSound DEF TypeOK
  <2>3. RebuildSound'
    <3>1. unscanned \subseteq packs /\ \A c \in Chunk : ~Dangling(c)
      BY <2>1 DEF RebuildSound
    <3>2. ASSUME NEW c \in Chunk
          PROVE  ~Dangling(c)'
      BY <2>1, <3>1 DEF Dangling, Indexed, AddPack
    <3>3. ASSUME NEW q \in packs \ (unscanned \ {p}), NEW c \in Ids(q)
          PROVE  Indexed(c)'
      <4>1. c \in Chunk
        BY <3>3, IdsType DEF TypeOK, StorageTypeOK
      <4>2. CASE c \in Ids(p)
        BY <2>1, <4>1, <4>2 DEF Indexed, AddPack, Ids, NoPack
      <4>3. CASE c \notin Ids(p)
        BY <2>1, <3>3, <4>1, <4>3 DEF Indexed, AddPack, RebuildSound
      <4> QED  BY <4>2, <4>3
    <3> QED  BY <2>1, <3>1, <3>2, <3>3 DEF RebuildSound
  <2> QED  BY <1>t, <2>1, <2>2, <2>3, NoGC
              DEF FlushSound, MarkSound, PhaseSound
<1>19. CASE UNCHANGED vars
  <2>1. UNCHANGED <<storageVars, sessionVars, gcVars, snaps, pc, marks, unscanned>>
    BY <1>19 DEF vars
  <2> QED  BY <1>t, <2>1, Frame
              DEF FlushSound, MarkSound, PhaseSound, RebuildSound, gcVars,
                  sessionVars, storageVars, Dangling, Indexed
<1> QED
  BY <1>1, <1>3, <1>4, <1>5, <1>6, <1>7, <1>8, <1>9, <1>10, <1>11, <1>12,
     <1>13, <1>14, <1>15, <1>16, <1>17, <1>18, <1>19
     DEF Next, Operate

(* The invariant of the sweep and of the ordered index updates holds       *)
(* whatever the Faults, the pack size and the repack threshold are.        *)
THEOREM SafeCorrect == Spec => []SafeInv
BY SafeInit, SafeStep, PTL DEF Spec

-----------------------------------------------------------------------------
(* The action properties. *)

LEMMA ReferencedType ==
  ASSUME TypeOK
  PROVE  Referenced \subseteq Chunk
BY ReachableType DEF TypeOK, Snapshot, Listing, Referenced

(* During the sweep the mark is complete. *)
LEMMA ReferencedLive ==
  ASSUME SafeInv, pc = "collect"
  PROVE  Referenced \subseteq live
BY DEF SafeInv, MarkSound, Referenced

(* What the deletion of a pack can touch: nothing that is live. *)
LEMMA SweptPack ==
  ASSUME SafeInv, gc = "sweep", NEW p \in todo
  PROVE  /\ p \in IndexedPacks
         /\ \A c \in Chunk : index[c] = p => seen[c] = p
<1>1. PICK d \in Chunk \ live : seen[d] = p
  BY DEF SafeInv, SweepSound, DeadIn
<1>2. index[d] = p /\ p # NoPack
  BY <1>1 DEF SafeInv, SweepSound
<1> QED  BY <1>1, <1>2 DEF SafeInv, SweepSound, IndexedPacks

LEMMA DroppedPack ==
  ASSUME SafeInv, gc = "drop"
  PROVE  /\ old \in IndexedPacks
         /\ \A c \in live : index[c] # old
         /\ \A c \in Chunk : index[c] = old => c \in doomed
<1>1. PICK d \in Chunk \ live : seen[d] = old
  BY DEF SafeInv, RepackSound, DeadIn
<1>2. index[d] = old /\ old # NoPack
  BY <1>1 DEF SafeInv, SweepSound, RepackSound
<1>3. \A c \in Chunk : index[c] = old => c \in doomed
  <2> SUFFICES ASSUME NEW c \in Chunk, index[c] = old
               PROVE  c \in doomed
    OBVIOUS
  <2>1. c \notin live
    BY DEF SafeInv, RepackSound
  <2>2. seen[c] = old
    BY <2>1 DEF SafeInv, SweepSound
  <2> QED  BY <2>1, <2>2 DEF SafeInv, RepackSound, DeadIn
<1> QED  BY <1>2, <1>3 DEF SafeInv, RepackSound, IndexedPacks

(* Every step either leaves the storage alone, indexes or publishes a      *)
(* stored pack, empties the index, or is one of the sweep's deletions.     *)
LEMMA StorageSteps ==
  ASSUME SafeInv, [Next]_vars
  PROVE  \/ UNCHANGED storageVars
         \/ \E p \in packs : index' = AddPack(p) /\ packs' = packs
         \/ \E p \in Pack : index' = index /\ packs' = packs \cup {p}
         \/ pc' = "rebuild" /\ index' = EmptyIndex /\ packs' = packs
         \/ pc = "collect" /\ \E p \in todo : SweepDead(p)
         \/ pc = "collect" /\ RepackDrop
         \/ pc = "collect" /\ RemoveDead
         \/ pc = "collect" /\ \E p \in orphs : DeleteOrphan(p)
<1> USE DEF SafeInv
<1>1. CASE FlushReturn
  BY <1>1 DEF FlushReturn, IndexPack, FlushSound
<1>2. CASE FlushPublish
  BY <1>2 DEF FlushPublish, PublishPack, TypeOK, StoreTypeOK
<1>3. ASSUME NEW p \in unscanned, RebuildPack(p)
      PROVE  \E q \in packs : index' = AddPack(q) /\ packs' = packs
  BY <1>3 DEF RebuildPack, RebuildSound
<1>4. CASE CollectStep
  <2>1. ASSUME NEW p \in todo, RepackWrite(p)
        PROVE  \E q \in Pack : index' = index /\ packs' = packs \cup {q}
    <3>1. {b \in p : b[1] \in LiveIn(p)} \in Pack
      BY DEF TypeOK, GCTypeOK, Pack
    <3> QED  BY <2>1, <3>1 DEF RepackWrite
  <2>2. CASE RepackIndex
    BY <2>2 DEF RepackIndex, RepackSound
  <2>3. ASSUME NEW p \in orphs, AdoptOrphan(p)
        PROVE  \E q \in packs : index' = AddPack(q) /\ packs' = packs
    BY <2>3 DEF AdoptOrphan, OrphanSound
  <2> QED  BY <1>4, <2>1, <2>2, <2>3 DEF CollectStep, SweepDefer
<1>5. CASE \/ BeginBackup \/ BeginPrune \/ StoreRoot \/ FinalFlush
           \/ WriteSnapshot \/ FlushSwallowed \/ LoadSnapshots \/ PruneDone
           \/ RebuildDone \/ Forget \/ CloseFlush \/ NewSession \/ BeginCollect
           \/ (\E d \in src : ScanFile(d)) \/ (\E x \in marks : MarkSnapshot(x))
           \/ UNCHANGED vars
  BY <1>5 DEF BeginBackup, BeginPrune, StoreRoot, FinalFlush, WriteSnapshot,
              FlushSwallowed, FinalizeFails, LoadSnapshots, PruneDone,
              RebuildDone, Forget, CloseFlush, Flush, NewSession, BeginCollect,
              Classify, ScanFile, MarkSnapshot, PutNew, PutDuplicate, vars
<1>6. CASE SnapshotMissing \/ TreeMissing \/ CollectFails \/ Stop
  BY <1>6 DEF SnapshotMissing, TreeMissing, CollectFails, Stop, Raise
<1>7. CASE BeginRebuild
  BY <1>7 DEF BeginRebuild
<1> QED
  BY <1>1, <1>2, <1>3, <1>4, <1>5, <1>6, <1>7 DEF Next, Operate

LEMMA KeepsStep ==
  ASSUME SafeInv, [Next]_vars
  PROVE  KeepsReferenced
<1> SUFFICES ASSUME NEW c \in Referenced, Findable(c)
             PROVE  Findable(c)'
  BY DEF KeepsReferenced
<1>0. c \in Chunk /\ StorageTypeOK
  BY ReferencedType DEF SafeInv, TypeOK
<1>1. CASE UNCHANGED storageVars
  BY <1>0, <1>1, StutterKeeps DEF storageVars
<1>2. ASSUME NEW p \in packs, index' = AddPack(p), packs' = packs
      PROVE  Findable(c)'
  BY <1>0, <1>2, AddPackKeeps
<1>3. ASSUME NEW p \in Pack, index' = index, packs' = packs \cup {p}
      PROVE  Findable(c)'
  BY <1>0, <1>3, PublishKeeps
<1>4. CASE index' = EmptyIndex /\ packs' = packs
  BY <1>0, <1>4, ClearKeeps DEF SafeInv, IndexSound
<1>5. ASSUME pc = "collect", NEW p \in todo, SweepDead(p)
      PROVE  Findable(c)'
  <2>1. index[c] # p
    BY <1>0, <1>5, SweptPack, ReferencedLive DEF SweepDead, LiveIn
  <2>2. packs' = packs \ {p} /\ index' = index /\ p \in IndexedPacks
    BY <1>5, SweptPack DEF SweepDead
  <2> QED  BY <1>0, <2>1, <2>2, DeleteKeeps
<1>6. CASE pc = "collect" /\ RepackDrop
  <2>1. index[c] # old
    BY <1>6, DroppedPack, ReferencedLive DEF RepackDrop
  <2>2. packs' = packs \ {old} /\ index' = index /\ old \in IndexedPacks
    BY <1>6, DroppedPack DEF RepackDrop
  <2> QED  BY <1>0, <2>1, <2>2, DeleteKeeps
<1>7. CASE pc = "collect" /\ RemoveDead
  <2>1. c \notin doomed
    BY <1>7, ReferencedLive DEF RemoveDead, SafeInv, SweepSound
  <2>2. index' = RemoveIds(doomed) /\ packs' = packs
    BY <1>7 DEF RemoveDead
  <2> QED  BY <1>0, <2>1, <2>2, RemoveKeeps
<1>8. ASSUME pc = "collect", NEW p \in orphs, DeleteOrphan(p)
      PROVE  Findable(c)'
  <2>1. c \notin Ids(p)
    BY <1>8, ReferencedLive DEF DeleteOrphan
  <2>2. Indexed(c) => index[c] # p
    BY <1>0, <2>1 DEF SafeInv, IndexSound
  <2>3. packs' = packs \ {p} /\ index' = index
    BY <1>8 DEF DeleteOrphan
  <2> QED  BY <1>0, <2>1, <2>2, <2>3, DeleteKeeps
<1> QED
  BY <1>1, <1>2, <1>3, <1>4, <1>5, <1>6, <1>7, <1>8, StorageSteps

(* NoReferencedChunkLost under every fault: a chunk that a snapshot record *)
(* reaches and that can be found is found after any step.                  *)
THEOREM ReferencedChunksKept == Spec => NoReferencedChunkLost
<1>1. SafeInv /\ [Next]_vars => [KeepsReferenced]_vars
  BY KeepsStep
<1> QED  BY <1>1, SafeCorrect, PTL DEF Spec, NoReferencedChunkLost

LEMMA DanglesStep ==
  ASSUME SafeInv, [Next]_vars
  PROVE  DanglesOnlyWhenDoomed
<1> SUFFICES ASSUME NEW c \in Chunk, Dangling(c)', ~Dangling(c)
             PROVE  c \in doomed' \ Referenced
  BY DEF DanglesOnlyWhenDoomed
<1>1. CASE UNCHANGED storageVars
  BY <1>1 DEF storageVars, Dangling, Indexed
<1>2. ASSUME NEW p \in packs, index' = AddPack(p), packs' = packs
      PROVE  FALSE
  BY <1>2 DEF Dangling, Indexed, AddPack
<1>3. ASSUME NEW p \in Pack, index' = index, packs' = packs \cup {p}
      PROVE  FALSE
  BY <1>3 DEF Dangling, Indexed
<1>4. CASE index' = EmptyIndex /\ packs' = packs
  BY <1>4 DEF EmptyIndex, Dangling, Indexed
<1>5. ASSUME pc = "collect", NEW p \in todo, SweepDead(p)
      PROVE  c \in doomed' \ Referenced
  <2>1. index[c] = p
    BY <1>5 DEF SweepDead, Dangling, Indexed
  <2>2. c \in DeadIn(p)
    BY <1>5, <2>1, SweptPack DEF SweepDead, LiveIn, DeadIn
  <2> QED  BY <1>5, <2>2, ReferencedLive DEF SweepDead, DeadIn
<1>6. CASE pc = "collect" /\ RepackDrop
  <2>1. index[c] = old
    BY <1>6 DEF RepackDrop, Dangling, Indexed
  <2>2. c \in doomed /\ c \notin live
    BY <1>6, <2>1, DroppedPack DEF RepackDrop
  <2> QED  BY <1>6, <2>2, ReferencedLive DEF RepackDrop
<1>7. CASE pc = "collect" /\ RemoveDead
  BY <1>7 DEF RemoveDead, Dangling, Indexed, RemoveIds
<1>8. ASSUME pc = "collect", NEW p \in orphs, DeleteOrphan(p)
      PROVE  FALSE
  <2>1. index[c] = p /\ Indexed(c)
    BY <1>8 DEF DeleteOrphan, Dangling, Indexed
  <2> QED  BY <1>8, <2>1
              DEF DeleteOrphan, SafeInv, OrphanSound, IndexedPacks, Indexed
<1> QED
  BY <1>1, <1>2, <1>3, <1>4, <1>5, <1>6, <1>7, <1>8, StorageSteps

(* DanglingOnlyFromSweep under every fault: whatever dangles was doomed by *)
(* a prune while no snapshot record reached it.                            *)
THEOREM DanglingConfined == Spec => DanglingOnlyFromSweep
<1>1. SafeInv /\ [Next]_vars => [DanglesOnlyWhenDoomed]_vars
  BY DanglesStep
<1> QED  BY <1>1, SafeCorrect, PTL DEF Spec, DanglingOnlyFromSweep

(* PruneReclaims under every fault: a prune that completes leaves no pack  *)
(* without a live chunk.                                                   *)
THEOREM PruneReclaimsDead == Spec => PruneReclaims
<1>1. SafeInv /\ [Next]_vars => [Reclaims]_vars
  BY DEF SafeInv, OrphanSound, Collected, Reclaims
<1> QED  BY <1>1, SafeCorrect, PTL DEF Spec, PruneReclaims

(* RebuildHeals under every fault: a rebuild that completes leaves an      *)
(* index of exactly the stored chunks.                                     *)
THEOREM RebuildRestoresIndex == Spec => RebuildHeals
<1>1. ASSUME SafeInv, pc = "rebuild", unscanned = {}, NEW c \in Chunk
      PROVE  /\ Indexed(c) <=> c \in UNION {Ids(p) : p \in packs}
             /\ ~Dangling(c)
  BY <1>1 DEF SafeInv, RebuildSound, IndexSound, Dangling
<1>2. SafeInv /\ [Next]_vars => [Rebuilds]_vars
  BY <1>1 DEF Rebuilds
<1> QED  BY <1>2, SafeCorrect, PTL DEF Spec, RebuildHeals
=============================================================================
