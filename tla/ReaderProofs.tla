---------------------------- MODULE ReaderProofs -----------------------------
(***************************************************************************)
(* What a restore and a check may conclude although they take no lock: the *)
(* invariants of Readers under every fault, for any contents, packs and    *)
(* snapshots.  Everything rests on one fact: while no sweep and no rebuild *)
(* runs, packs are only added and index entries only move to stored packs. *)
(***************************************************************************)
EXTENDS Readers, RepositoryProofs, FiniteSetTheorems

allVars == <<vars, readerVars, restoreVars, checkVars>>

Calm == during \cap Disturbing = {}

ReachLocated(S) == \A c \in Reachable(S) : Located(c)

(* One reader at a time; a chunk that was located is one it waits for, and *)
(* a reader knows of every sweep and rebuild that runs beside it.          *)
ReadSound ==
  /\ reader = "idle" \/ checker = "idle"
  /\ reading # {} => reader \in {"tree", "files"} \/ checker \in {"walk", "read"}
  /\ reader = "tree"  => reading \subseteq {TreeChunk(Listing(x)) : x \in wanted}
  /\ reader = "files" => reading \subseteq {FileChunk(d) : d \in left}
  /\ checker = "walk" => reading \subseteq {TreeChunk(Listing(x)) : x \in walk}
  /\ checker = "read" => reading \subseteq {e[1] : e \in cursor}
  /\ Open /\ Calm => pc \notin Disturbing

(* Undisturbed, a restore of an undamaged repository finds what it wants.  *)
RestoreSound ==
  /\ reader = "idle" => left = {} /\ failed = {}
  /\ \A d \in left : \E x \in wanted : d \in Listing(x)
  /\ reader # "idle" /\ sound /\ Calm =>
       /\ failed = {}
       /\ reading # {} => at \in packs
       /\ \A x \in wanted : ReachLocated(Listing(x))

(* So does a check, as long as nothing is forgotten either.                *)
CheckSound ==
  checker # "idle" /\ sound /\ during = {} =>
    /\ problems = {} /\ checker # "aborted"
    /\ reading # {} => at \in packs
    /\ \A c \in Chunk : ~Dangling(c)
    /\ walk \subseteq snaps
    /\ \A x \in walk : ReachLocated(Listing(x))
    /\ \A c \in referenced : Located(c)
    /\ \A e \in cursor : Indexed(e[1]) /\ e[2] \in packs

(* What a check without a problem has established so far.                  *)
ReportSound ==
  /\ checker \in {"idle", "load"} =>
       checked = {} /\ referenced = {} /\ problems = {} /\ cursor = {}
  /\ checker \notin {"idle", "load", "walk"} => referenced = {}
  /\ checker # "idle" /\ Calm /\ problems = {} =>
       \A x \in checked : \A c \in Reachable(Listing(x)) :
         /\ checker \in {"walk", "packs"} => c \in referenced \/ Indexed(c)
         /\ checker = "entries" => Located(c) \/ <<c, index[c]>> \in cursor
         /\ checker \in {"read", "done"} => Located(c)

ReadersInv ==
  SafeInv /\ ReadersTypeOK /\ ReadSound /\ RestoreSound /\ CheckSound /\ ReportSound

-----------------------------------------------------------------------------
(* The storage while nothing disturbs it. *)

LEMMA StorageGrows ==
  ASSUME SafeInv, [Next]_vars, pc \notin Disturbing, pc' \notin Disturbing
  PROVE  /\ packs \subseteq packs'
         /\ index' = index \/ \E p \in packs : index' = AddPack(p)
BY StorageSteps DEF Disturbing, storageVars

LEMMA GrownStorage ==
  ASSUME TypeOK, packs \subseteq packs',
         index' = index \/ \E p \in packs : index' = AddPack(p),
         NEW c \in Chunk
  PROVE  /\ Indexed(c) => Indexed(c)'
         /\ Located(c) => Located(c)'
         /\ Dangling(c)' => Dangling(c)
         /\ index'[c] = index[c] \/ Located(c)'
<1>1. CASE index' = index
  BY <1>1 DEF Indexed, Located, Dangling
<1>2. ASSUME NEW p \in packs, index' = AddPack(p), c \in Ids(p)
      PROVE  Located(c)' /\ ~Dangling(c)'
  BY <1>2 DEF AddPack, Indexed, Located, Dangling, Ids, NoPack
<1>3. ASSUME NEW p \in packs, index' = AddPack(p), c \notin Ids(p)
      PROVE  index'[c] = index[c]
  BY <1>3 DEF AddPack
<1> QED  BY <1>1, <1>2, <1>3 DEF Indexed, Located, Dangling

LEMMA ReachType ==
  ASSUME NEW x \in Snapshot
  PROVE  /\ Listing(x) \subseteq Data
         /\ TreeChunk(Listing(x)) \in Chunk
         /\ Reachable(Listing(x)) \subseteq Chunk
         /\ TreeChunk(Listing(x)) \in Reachable(Listing(x))
         /\ \A d \in Listing(x) : FileChunk(d) \in Reachable(Listing(x))
<1>1. Listing(x) \subseteq Data
  BY DEF Snapshot, Listing
<1> QED  BY <1>1, ChunkTypes, ReachableType DEF Reachable

(* The three outcomes of a get, and what they make of its variables.       *)
Get(c) == Locate(c) \/ Fetched(c) \/ Missing(c)

LEMMA GetType ==
  ASSUME TypeOK, ReaderTypeOK, NEW c \in Chunk, Get(c)
  PROVE  ReaderTypeOK'
<1>1. Cardinality({c}) = 1 /\ Cardinality({}) = 0
  BY FS_Singleton, FS_EmptySet
<1>2. index[c] \in Pack /\ NoPack \in Pack
  BY ChunkTypes DEF TypeOK, StorageTypeOK
<1> QED
  BY <1>1, <1>2 DEF Get, Locate, Fetched, Missing, ReaderTypeOK, historyVars

(* A chunk that is located is got. *)
LEMMA GetSucceeds ==
  ASSUME NEW c, Located(c), reading # {} => at \in packs
  PROVE  ~Missing(c) /\ (Locate(c) => at' \in packs)
BY DEF Located, Missing, Locate

LEMMA OpensType ==
  ASSUME ReaderTypeOK, ReaderOpens \/ ReaderCloses
  PROVE  ReaderTypeOK'
<1>1. Undamaged \in BOOLEAN
  BY DEF Undamaged
<1> QED  BY <1>1 DEF ReaderTypeOK, ReaderOpens, ReaderCloses

-----------------------------------------------------------------------------
(* Steps of the writer and of forget beside a reader. *)

(* What a reader notes of a step beside it.                                *)
LEMMA Noted ==
  ASSUME ReadersInv, WriterStep(Open), Open, UNCHANGED <<restoreVars, checkVars>>
  PROVE  /\ during \subseteq during'
         /\ Calm' => /\ Calm /\ pc \notin Disturbing /\ pc' \notin Disturbing
                     /\ packs \subseteq packs'
                     /\ index' = index \/ \E p \in packs : index' = AddPack(p)
         /\ during' = {} => during = {} /\ snaps \subseteq snaps'
<1>1. during' = during \cup ({pc'} \cap Disturbing)
                       \cup (IF snaps \subseteq snaps' THEN {} ELSE {"forget"})
  BY DEF WriterStep
<1>2. Calm' => Calm /\ pc \notin Disturbing /\ pc' \notin Disturbing
  BY <1>1 DEF Calm, ReadersInv, ReadSound
<1>3. SafeInv /\ [Next]_vars
  BY DEF ReadersInv, WriterStep
<1> QED  BY <1>1, <1>2, <1>3, StorageGrows

LEMMA WriterKeeps ==
  ASSUME ReadersInv, TypeOK', WriterStep(Open), UNCHANGED <<restoreVars, checkVars>>
  PROVE  /\ ReadersTypeOK' /\ ReadSound' /\ RestoreSound' /\ CheckSound' /\ ReportSound'
<1> USE DEF ReadersInv, ReadersTypeOK, restoreVars, checkVars
<1>0. UNCHANGED <<reading, at, sound>> /\ (Open' <=> Open)
  BY DEF WriterStep, Open
<1>1. ReadersTypeOK'
  <2>1. ReaderTypeOK'
    BY <1>0 DEF WriterStep, ReaderTypeOK, Disturbing
  <2> QED  BY <2>1 DEF RestoreTypeOK, CheckTypeOK
<1>2. ReadSound'
  BY <1>0, Noted DEF ReadSound
<1>3. RestoreSound'
  <2>1. \A d \in left : \E x \in wanted : d \in Listing(x)
    BY DEF RestoreSound
  <2>2. ASSUME reader # "idle", sound, Calm'
        PROVE  /\ failed = {}
               /\ reading # {} => at \in packs'
               /\ \A x \in wanted : \A c \in Reachable(Listing(x)) : Located(c)'
    <3>1. Open
      BY <2>2 DEF Open
    <3>2. /\ failed = {}
          /\ reading # {} => at \in packs
          /\ \A x \in wanted : ReachLocated(Listing(x))
      BY <2>2, <3>1, Noted DEF RestoreSound
    <3>3. ASSUME NEW x \in wanted, NEW c \in Reachable(Listing(x))
          PROVE  Located(c)'
      <4>1. c \in Chunk /\ Located(c)
        BY <3>2, <3>3, ReachType DEF RestoreTypeOK, ReachLocated
      <4> QED  BY <2>2, <3>1, <4>1, Noted, GrownStorage
    <3> QED  BY <2>2, <3>1, <3>2, <3>3, Noted
  <2> QED  BY <1>0, <2>1, <2>2 DEF RestoreSound, ReachLocated
<1>4. CheckSound'
  <2> SUFFICES ASSUME checker # "idle", sound, during' = {}
               PROVE  /\ problems = {} /\ checker # "aborted"
                      /\ reading # {} => at \in packs'
                      /\ \A c \in Chunk : ~Dangling(c)'
                      /\ walk \subseteq snaps'
                      /\ \A x \in walk : \A c \in Reachable(Listing(x)) : Located(c)'
                      /\ \A c \in referenced : Located(c)'
                      /\ \A e \in cursor : Indexed(e[1])' /\ e[2] \in packs'
    BY <1>0 DEF CheckSound, ReachLocated
  <2>1. Open /\ Calm' /\ during = {} /\ snaps \subseteq snaps'
    BY Noted DEF Open, Calm
  <2>2. /\ packs \subseteq packs'
        /\ index' = index \/ \E p \in packs : index' = AddPack(p)
    BY <2>1, Noted
  <2>3. \A x \in walk : \A c \in Reachable(Listing(x)) : c \in Chunk /\ Located(c)
    BY <2>1, ReachType DEF CheckSound, CheckTypeOK, ReachLocated
  <2>4. \A e \in cursor : e[1] \in Chunk
    BY DEF CheckTypeOK
  <2>5. referenced \subseteq Chunk
    BY DEF CheckTypeOK
  <2> QED  BY <2>1, <2>2, <2>3, <2>4, <2>5, GrownStorage DEF CheckSound
<1>5. ReportSound'
  <2> SUFFICES ASSUME checker # "idle", Calm', problems = {},
                      NEW x \in checked, NEW c \in Reachable(Listing(x))
               PROVE  /\ checker \in {"walk", "packs"} => c \in referenced \/ Indexed(c)'
                      /\ checker = "entries" => Located(c)' \/ <<c, index'[c]>> \in cursor
                      /\ checker \in {"read", "done"} => Located(c)'
    BY DEF ReportSound
  <2>1. Open
    BY DEF Open
  <2>2. c \in Chunk
    BY ReachType DEF CheckTypeOK
  <2>3. /\ Indexed(c) => Indexed(c)'
        /\ Located(c) => Located(c)'
        /\ index'[c] = index[c] \/ Located(c)'
    BY <2>1, <2>2, Noted, GrownStorage
  <2> QED  BY <2>1, <2>3, Noted DEF ReportSound
<1> QED  BY <1>1, <1>2, <1>3, <1>4, <1>5

-----------------------------------------------------------------------------
(* Steps of a restore. *)

(* Nothing of the repository changes, so what was located still is.        *)
LEMMA StillLocated ==
  ASSUME UNCHANGED vars
  PROVE  /\ UNCHANGED <<packs, index, snaps, pc>>
         /\ \A c : (Located(c)' <=> Located(c)) /\ (Indexed(c)' <=> Indexed(c))
                   /\ (Dangling(c)' <=> Dangling(c))
         /\ TypeOK => TypeOK'
BY DEF vars, storageVars, Located, Indexed, Dangling, TypeOK, StorageTypeOK,
       StoreTypeOK, GCTypeOK, sessionVars, gcVars, backupVars

(* An undamaged repository has what its records reach. *)
LEMMA BeginsUndamaged ==
  ASSUME ReaderOpens, UNCHANGED vars
  PROVE  /\ Calm' => pc' \notin Disturbing
         /\ sound' => /\ \A c \in Chunk : ~Dangling(c)
                      /\ \A x \in snaps : ReachLocated(Listing(x))
<1>1. pc' = pc
  BY StillLocated
<1> QED
  BY <1>1 DEF ReaderOpens, Calm, Undamaged, Referenced, ReachLocated

LEMMA RestoreKeeps ==
  ASSUME ReadersInv, checker = "idle", RestoreAction, UNCHANGED checkVars
  PROVE  ReadersTypeOK' /\ ReadSound' /\ RestoreSound' /\ CheckSound' /\ ReportSound'
<1> USE DEF ReadersInv, ReadersTypeOK
<1>0. UNCHANGED vars
  BY DEF RestoreAction, BeginRestore, LoadRoot, RestoreFile, ReportRestore, EndRestore
<1>1. TypeOK' /\ CheckTypeOK' /\ CheckSound' /\ ReportSound' /\ checker' = "idle"
  BY <1>0, StillLocated DEF checkVars, CheckTypeOK, CheckSound, ReportSound
<1>2. CASE BeginRestore
  <2>1. /\ reader' = "tree" /\ left' = {} /\ failed' = {} /\ reading' = {}
        /\ wanted' \subseteq snaps
    BY <1>2 DEF BeginRestore, ReaderOpens, RestoreSound, ReadSound
  <2>2. ReadersTypeOK'
    BY <1>1, <1>2, <2>1, OpensType DEF BeginRestore, RestoreTypeOK, TypeOK
  <2>3. ReadSound' /\ RestoreSound'
    BY <1>0, <1>1, <1>2, <2>1, BeginsUndamaged, StillLocated
       DEF BeginRestore, ReadSound, RestoreSound, ReachLocated
  <2> QED  BY <1>1, <2>2, <2>3
<1>3. ASSUME NEW x \in wanted, NEW c, c = TreeChunk(Listing(x)), reader = "tree",
             Get(c), UNCHANGED wanted,
             \/ Locate(c) /\ UNCHANGED restoreVars
             \/ Fetched(c) /\ left' = Listing(x) /\ reader' = "files" /\ failed' = failed
             \/ Missing(c) /\ failed' = {c} /\ reader' = "done" /\ left' = left
      PROVE  ReadersTypeOK' /\ ReadSound' /\ RestoreSound'
  <2>1. x \in Snapshot /\ c \in Chunk /\ Listing(x) \subseteq Data
    BY <1>3, ReachType DEF RestoreTypeOK
  <2>2. ReadersTypeOK'
    BY <1>1, <1>3, <2>1, GetType DEF RestoreTypeOK, restoreVars
  <2>3. ReadSound'
    BY <1>0, <1>1, <1>3, StillLocated
       DEF ReadSound, Locate, Fetched, Missing, restoreVars, Calm, historyVars, Open
  <2>4. RestoreSound'
    <3>1. UNCHANGED historyVars
      BY <1>3 DEF Locate, Fetched, Missing
    <3>2. \A d \in left' : \E y \in wanted : d \in Listing(y)
      BY <1>3 DEF RestoreSound, restoreVars
    <3>3. reader' # "idle"
      BY <1>3 DEF restoreVars
    <3>4. ASSUME sound, Calm
          PROVE  ~Missing(c) /\ (reading' # {} => at' \in packs)
      <4>1. Located(c) /\ (reading # {} => at \in packs)
        BY <1>3, <2>1, <3>4, ReachType DEF RestoreSound, ReachLocated
      <4> QED  BY <1>3, <4>1, GetSucceeds DEF Fetched
    <3> QED
      BY <1>0, <1>3, <3>1, <3>2, <3>3, <3>4, StillLocated
         DEF RestoreSound, ReachLocated, historyVars, restoreVars, Calm
  <2> QED  BY <2>2, <2>3, <2>4
<1>4. CASE LoadRoot
  <2>1. PICK x \in wanted :
          LET c == TreeChunk(Listing(x)) IN
          /\ Get(c) /\ reader = "tree" /\ UNCHANGED wanted
          /\ \/ Locate(c) /\ UNCHANGED restoreVars
             \/ Fetched(c) /\ left' = Listing(x) /\ reader' = "files" /\ failed' = failed
             \/ Missing(c) /\ failed' = {c} /\ reader' = "done" /\ left' = left
    BY <1>4 DEF LoadRoot, Get, restoreVars
  <2> QED  BY <1>1, <1>3, <2>1
<1>5. ASSUME NEW d \in left, RestoreFile(d)
      PROVE  ReadersTypeOK' /\ ReadSound' /\ RestoreSound'
  <2> DEFINE c == FileChunk(d)
  <2>0. /\ reader = "files" /\ reader' = "files" /\ wanted' = wanted /\ Get(c)
        /\ UNCHANGED historyVars /\ left' \subseteq left
    BY <1>5 DEF RestoreFile, Get, Locate, Fetched, Missing, restoreVars
  <2>1. c \in Chunk
    BY ChunkTypes DEF RestoreTypeOK
  <2>2. ReadersTypeOK'
    BY <1>1, <1>5, <2>0, <2>1, GetType DEF RestoreTypeOK, RestoreFile, restoreVars
  <2>3. ReadSound'
    BY <1>0, <1>1, <1>5, <2>0, StillLocated
       DEF RestoreFile, ReadSound, Locate, Fetched, Missing, restoreVars, Calm,
           historyVars, Open
  <2>4. ASSUME sound, Calm
        PROVE  ~Missing(c) /\ (reading' # {} => at' \in packs)
    <3>1. PICK x \in wanted : d \in Listing(x)
      BY DEF RestoreSound
    <3>2. Located(c) /\ (reading # {} => at \in packs)
      BY <2>0, <2>4, <3>1, ReachType DEF RestoreTypeOK, RestoreSound, ReachLocated
    <3>3. ~Missing(c) /\ (Locate(c) => at' \in packs)
      BY <3>2, GetSucceeds
    <3>4. Fetched(c) => reading' = {}
      BY DEF Fetched
    <3> QED  BY <2>0, <3>3, <3>4 DEF Get
  <2>5. RestoreSound'
    BY <1>0, <1>5, <2>0, <2>4, StillLocated
       DEF RestoreFile, RestoreSound, ReachLocated, historyVars, restoreVars, Calm
  <2> QED  BY <2>2, <2>3, <2>5
<1>6. CASE ReportRestore \/ EndRestore
  <2>1. ReadersTypeOK'
    BY <1>1, <1>6, OpensType
       DEF ReportRestore, EndRestore, RestoreTypeOK, readerVars, ReaderTypeOK
  <2>2. reading = {} /\ reading' = {} /\ reader' \in {"idle", "done"}
    BY <1>6 DEF ReportRestore, EndRestore, ReaderCloses, ReadSound, readerVars
  <2>3. ReadSound'
    BY <1>0, <1>1, <1>6, <2>2, StillLocated
       DEF ReportRestore, EndRestore, ReadSound, readerVars, Calm, Open
  <2>4. ReportRestore => RestoreSound'
    BY <1>0, <2>2, StillLocated
       DEF ReportRestore, RestoreSound, ReachLocated, readerVars, Calm
  <2>5. EndRestore => RestoreSound'
    BY DEF EndRestore, RestoreSound
  <2> QED  BY <1>1, <1>6, <2>1, <2>3, <2>4, <2>5
<1> QED  BY <1>1, <1>2, <1>4, <1>5, <1>6 DEF RestoreAction

-----------------------------------------------------------------------------
(* Steps of a check. *)

LEMMA CheckKeeps ==
  ASSUME ReadersInv, reader = "idle", CheckAction, UNCHANGED restoreVars
  PROVE  ReadersTypeOK' /\ ReadSound' /\ RestoreSound' /\ CheckSound' /\ ReportSound'
<1> USE DEF ReadersInv, ReadersTypeOK
<1>0. UNCHANGED vars
  BY DEF CheckAction, BeginCheck, LoadListed, WalkTree, Lookup, ListPacks, OpenCursor,
         CompareEntry, EntriesDone, ReadBack, ReadDone, EndCheck
<1>1. /\ TypeOK' /\ RestoreTypeOK' /\ RestoreSound' /\ reader' = "idle"
      /\ UNCHANGED <<packs, index, snaps, pc>>
  BY <1>0, StillLocated DEF restoreVars, RestoreTypeOK, RestoreSound
<1>2. CASE BeginCheck
  <2>1. /\ checker' = "load" /\ walk' = snaps /\ reading' = {} /\ checked' = {}
        /\ referenced' = {} /\ problems' = {} /\ cursor' = {}
    BY <1>2 DEF BeginCheck, ReaderOpens, ReadSound, ReportSound
  <2>2. ReadersTypeOK'
    BY <1>1, <1>2, <2>1, OpensType DEF BeginCheck, CheckTypeOK, TypeOK
  <2>3. ReadSound' /\ ReportSound'
    BY <1>0, <1>1, <1>2, <2>1, BeginsUndamaged
       DEF BeginCheck, ReadSound, ReportSound
  <2>4. CheckSound'
    BY <1>0, <1>1, <1>2, <2>1, BeginsUndamaged, StillLocated
       DEF BeginCheck, CheckSound, ReachLocated, ReadSound
  <2> QED  BY <1>1, <2>2, <2>3, <2>4
<1>3. CASE LoadListed
  <2>1. /\ checker = "load" /\ checker' = "walk" /\ reading' = {} /\ UNCHANGED readerVars
        /\ UNCHANGED <<checked, referenced, listed, cursor, orphans>>
        /\ walk' \subseteq snaps /\ walk' \subseteq Snapshot
        /\ \/ walk' = walk /\ problems' = problems
           \/ ~(walk \subseteq snaps) /\ problems' = problems \cup {"error"}
    BY <1>3 DEF LoadListed, readerVars, ReadSound, CheckTypeOK
  <2>2. ReadersTypeOK'
    BY <1>1, <2>1 DEF CheckTypeOK, readerVars, ReaderTypeOK
  <2>3. ReadSound' /\ ReportSound'
    BY <1>1, <2>1 DEF ReadSound, ReportSound, readerVars, Calm, Open
  <2>4. CheckSound'
    BY <1>0, <1>1, <2>1, StillLocated DEF CheckSound, ReachLocated, readerVars
  <2> QED  BY <1>1, <2>2, <2>3, <2>4
<1>4. ASSUME NEW x \in walk, WalkTree(x)
      PROVE  ReadersTypeOK' /\ ReadSound' /\ CheckSound' /\ ReportSound'
  <2> DEFINE c == TreeChunk(Listing(x))
  <2>1. /\ checker = "walk" /\ checker' = "walk" /\ Get(c) /\ UNCHANGED historyVars
        /\ UNCHANGED <<listed, cursor, orphans>> /\ walk' \subseteq walk
        /\ \/ Locate(c) /\ UNCHANGED <<walk, checked, referenced, problems>>
           \/ /\ Fetched(c) /\ walk' = walk \ {x} /\ checked' = checked \cup {x}
              /\ referenced' = referenced \cup Reachable(Listing(x))
              /\ problems' = problems
           \/ /\ Missing(c) /\ walk' = walk \ {x} /\ problems' = problems \cup {"error"}
              /\ UNCHANGED <<checked, referenced>>
    BY <1>4 DEF WalkTree, Get, Locate, Fetched, Missing, checkVars
  <2>2. x \in Snapshot /\ c \in Chunk /\ Reachable(Listing(x)) \subseteq Chunk
    BY ReachType DEF CheckTypeOK
  <2> HIDE DEF c
  <2>3. ReadersTypeOK'
    BY <1>1, <2>1, <2>2, GetType DEF CheckTypeOK
  <2>4. ReadSound'
    BY <1>1, <2>1 DEF c, ReadSound, Locate, Fetched, Missing, historyVars, Calm, Open
  <2>5. ReportSound'
    BY <1>0, <1>1, <2>1, StillLocated DEF ReportSound, historyVars, Calm
  <2>6. ASSUME sound, during = {}
        PROVE  ~Missing(c) /\ (reading' # {} => at' \in packs)
    <3>1. Located(c) /\ (reading # {} => at \in packs)
      BY <2>1, <2>2, <2>6, ReachType DEF c, CheckSound, ReachLocated
    <3>2. ~Missing(c) /\ (Locate(c) => at' \in packs)
      BY <3>1, GetSucceeds
    <3>3. Fetched(c) => reading' = {}
      BY DEF Fetched
    <3> QED  BY <2>1, <3>2, <3>3 DEF Get
  <2>7. CheckSound'
    BY <1>0, <1>1, <2>1, <2>6, StillLocated DEF CheckSound, ReachLocated, historyVars
  <2> QED  BY <2>3, <2>4, <2>5, <2>7
<1>5. ASSUME NEW c \in referenced, Lookup(c)
      PROVE  ReadersTypeOK' /\ ReadSound' /\ CheckSound' /\ ReportSound'
  <2>1. /\ checker = "walk" /\ checker' = "walk" /\ UNCHANGED readerVars
        /\ UNCHANGED <<walk, checked, listed, cursor, orphans>>
        /\ referenced' = referenced \ {c}
        /\ \/ Indexed(c) /\ problems' = problems
           \/ ~Indexed(c) /\ problems' = problems \cup {"missing"}
    BY <1>5 DEF Lookup
  <2>2. ReadersTypeOK'
    BY <1>1, <2>1 DEF CheckTypeOK, readerVars, ReaderTypeOK
  <2>3. ReadSound'
    BY <1>1, <2>1 DEF ReadSound, readerVars, Calm, Open
  <2>4. ReportSound'
    BY <1>0, <1>1, <2>1, StillLocated DEF ReportSound, readerVars, Calm
  <2>5. CheckSound'
    BY <1>0, <1>1, <2>1, StillLocated
       DEF CheckSound, ReachLocated, readerVars, Located
  <2> QED  BY <2>2, <2>3, <2>4, <2>5
<1>6. CASE ListPacks \/ OpenCursor
  <2>1. /\ UNCHANGED readerVars /\ reading = {} /\ UNCHANGED <<walk, checked, referenced, problems>>
        /\ listed' \subseteq Pack /\ orphans' \subseteq Pack
        /\ \/ checker = "walk" /\ referenced = {} /\ checker' = "packs" /\ cursor' = cursor
           \/ /\ checker = "packs" /\ checker' = "entries"
              /\ cursor' = {<<c, index[c]>> : c \in {d \in Chunk : Indexed(d)}}
    BY <1>6 DEF ListPacks, OpenCursor, ReadSound, CheckTypeOK, TypeOK, StorageTypeOK
  <2>2. cursor' \subseteq Chunk \X Pack
    BY <2>1 DEF CheckTypeOK, TypeOK, StorageTypeOK
  <2>3. ReadersTypeOK'
    BY <1>1, <2>1, <2>2 DEF CheckTypeOK, readerVars, ReaderTypeOK
  <2>4. ReadSound'
    BY <1>1, <2>1 DEF ReadSound, readerVars, Calm, Open
  <2>5. ReportSound'
    <3>1. \A x \in checked : Reachable(Listing(x)) \subseteq Chunk
      BY ReachType DEF CheckTypeOK
    <3> QED
      BY <1>0, <1>1, <2>1, <3>1, StillLocated DEF ReportSound, readerVars, Calm
  <2>6. ASSUME sound, during = {}
        PROVE  \A e \in cursor' : Indexed(e[1]) /\ e[2] \in packs
    BY <2>1, <2>6 DEF CheckSound, Dangling
  <2>7. CheckSound'
    BY <1>0, <1>1, <2>1, <2>6, StillLocated DEF CheckSound, ReachLocated, readerVars
  <2> QED  BY <1>1, <2>3, <2>4, <2>5, <2>7
<1>7. ASSUME NEW e \in cursor, CompareEntry(e)
      PROVE  ReadersTypeOK' /\ ReadSound' /\ CheckSound' /\ ReportSound'
  <2>1. /\ UNCHANGED readerVars /\ reading = {} /\ checker = "entries"
        /\ UNCHANGED <<walk, checked, referenced, listed, orphans>>
        /\ \/ /\ Indexed(e[1]) /\ checker' = "entries" /\ cursor' = cursor \ {e}
              /\ \/ e[2] \in packs /\ problems' = problems
                 \/ e[2] \notin packs /\ problems' = problems \cup {"pack"}
           \/ /\ ~Indexed(e[1]) /\ checker' = "aborted"
              /\ UNCHANGED <<cursor, problems>>
    BY <1>7 DEF CompareEntry, ReadSound
  <2>2. ReadersTypeOK'
    BY <1>1, <2>1 DEF CheckTypeOK, readerVars, ReaderTypeOK
  <2>3. ReadSound'
    BY <1>1, <2>1 DEF ReadSound, readerVars, Calm, Open
  <2>4. ASSUME NEW c, <<c, index[c]>> = e, e[2] \in packs, Indexed(e[1])
        PROVE  Located(c)
    BY <2>4 DEF Located
  <2>5. ReportSound'
    BY <1>0, <1>1, <2>1, <2>4, StillLocated DEF ReportSound, readerVars, Calm
  <2>6. CheckSound'
    BY <1>0, <1>1, <2>1, StillLocated DEF CheckSound, ReachLocated, readerVars
  <2> QED  BY <2>2, <2>3, <2>5, <2>6
<1>8. CASE EntriesDone \/ ReadDone
  <2>1. /\ UNCHANGED readerVars /\ reading = {} /\ checker \in {"entries", "read"}
        /\ UNCHANGED <<walk, checked, referenced, listed, problems, orphans>>
        /\ cursor = {} /\ checker' \in {"read", "done"}
        /\ \/ cursor' = cursor
           \/ cursor' = {<<c, index[c]>> : c \in {d \in Chunk : Indexed(d)}}
    BY <1>8 DEF EntriesDone, ReadDone, ReadSound
  <2>2. cursor' \subseteq Chunk \X Pack
    BY <2>1 DEF CheckTypeOK, TypeOK, StorageTypeOK
  <2>3. ReadersTypeOK'
    BY <1>1, <2>1, <2>2 DEF CheckTypeOK, readerVars, ReaderTypeOK
  <2>4. ReadSound'
    BY <1>1, <2>1 DEF ReadSound, readerVars, Calm, Open
  <2>5. ReportSound'
    BY <1>0, <1>1, <2>1, StillLocated DEF ReportSound, readerVars, Calm
  <2>6. ASSUME sound, during = {}
        PROVE  \A e \in cursor' : Indexed(e[1]) /\ e[2] \in packs
    BY <2>1, <2>6 DEF CheckSound, Dangling
  <2>7. CheckSound'
    BY <1>0, <1>1, <2>1, <2>6, StillLocated DEF CheckSound, ReachLocated, readerVars
  <2> QED  BY <1>1, <2>3, <2>4, <2>5, <2>7
<1>9. ASSUME NEW e \in cursor, ReadBack(e)
      PROVE  ReadersTypeOK' /\ ReadSound' /\ CheckSound' /\ ReportSound'
  <2> DEFINE c == e[1]
  <2>1. /\ checker = "read" /\ checker' = "read" /\ Get(c) /\ UNCHANGED historyVars
        /\ UNCHANGED <<walk, checked, referenced, listed, orphans>>
        /\ \/ Locate(c) /\ UNCHANGED <<cursor, problems>>
           \/ Fetched(c) /\ cursor' = cursor \ {e} /\ problems' = problems
           \/ Missing(c) /\ cursor' = cursor \ {e} /\ problems' = problems \cup {"corrupt"}
    BY <1>9 DEF ReadBack, Get, Locate, Fetched, Missing, checkVars
  <2>2. c \in Chunk /\ c \in {f[1] : f \in cursor}
    BY DEF CheckTypeOK
  <2> HIDE DEF c
  <2>3. ReadersTypeOK'
    BY <1>1, <2>1, <2>2, GetType DEF CheckTypeOK
  <2>4. ReadSound'
    BY <1>1, <2>1, <2>2 DEF ReadSound, Locate, Fetched, Missing, historyVars, Calm, Open
  <2>5. ReportSound'
    BY <1>0, <1>1, <2>1, StillLocated DEF ReportSound, historyVars, Calm
  <2>6. ASSUME sound, during = {}
        PROVE  ~Missing(c) /\ (reading' # {} => at' \in packs)
    <3>1. Located(c) /\ (reading # {} => at \in packs)
      BY <2>1, <2>2, <2>6 DEF c, CheckSound, Dangling, Located
    <3>2. ~Missing(c) /\ (Locate(c) => at' \in packs)
      BY <3>1, GetSucceeds
    <3>3. Fetched(c) => reading' = {}
      BY DEF Fetched
    <3> QED  BY <2>1, <3>2, <3>3 DEF Get
  <2>7. CheckSound'
    BY <1>0, <1>1, <2>1, <2>6, StillLocated DEF CheckSound, ReachLocated, historyVars
  <2> QED  BY <2>3, <2>4, <2>5, <2>7
<1>10. CASE EndCheck
  <2>1. /\ checker' = "idle" /\ reading = {} /\ reading' = {}
    BY <1>10 DEF EndCheck, ReaderCloses, ReadSound
  <2>2. ReadersTypeOK'
    BY <1>1, <1>10, OpensType DEF EndCheck, CheckTypeOK, TypeOK
  <2>3. ReadSound' /\ CheckSound' /\ ReportSound'
    BY <1>1, <1>10, <2>1 DEF EndCheck, ReadSound, CheckSound, ReportSound, Open
  <2> QED  BY <1>1, <2>2, <2>3
<1> QED
  BY <1>1, <1>2, <1>3, <1>4, <1>5, <1>6, <1>7, <1>8, <1>9, <1>10 DEF CheckAction

-----------------------------------------------------------------------------
(* The theorems. *)

LEMMA ReadersStep == ReadersInv /\ [ReadersNext]_allVars => ReadersInv'
<1> SUFFICES ASSUME ReadersInv, [ReadersNext]_allVars
             PROVE  ReadersInv'
  OBVIOUS
<1>1. SafeInv'
  <2>1. [Next]_vars
    BY DEF ReadersNext, WriterStep, RestoreAction, BeginRestore, LoadRoot, RestoreFile,
           ReportRestore, EndRestore, CheckAction, BeginCheck, LoadListed, WalkTree,
           Lookup, ListPacks, OpenCursor, CompareEntry, EntriesDone, ReadBack, ReadDone,
           EndCheck, allVars
  <2> QED  BY <2>1, SafeStep DEF ReadersInv
<1>2. CASE WriterStep(Open) /\ UNCHANGED <<restoreVars, checkVars>>
  BY <1>1, <1>2, WriterKeeps DEF ReadersInv, SafeInv
<1>3. CASE checker = "idle" /\ RestoreAction /\ UNCHANGED checkVars
  BY <1>1, <1>3, RestoreKeeps DEF ReadersInv
<1>4. CASE reader = "idle" /\ CheckAction /\ UNCHANGED restoreVars
  BY <1>1, <1>4, CheckKeeps DEF ReadersInv
<1>5. CASE UNCHANGED allVars
  <2>1. /\ UNCHANGED <<packs, index, snaps, pc>>
        /\ TypeOK' /\ ReaderTypeOK' /\ RestoreTypeOK' /\ CheckTypeOK'
    BY <1>1, <1>5, StillLocated
       DEF allVars, readerVars, restoreVars, checkVars, ReadersInv, ReadersTypeOK,
           SafeInv, ReaderTypeOK, RestoreTypeOK, CheckTypeOK
  <2>2. ReadSound' /\ RestoreSound'
    BY <1>5, <2>1, StillLocated
       DEF allVars, readerVars, restoreVars, checkVars, ReadersInv, ReadSound,
           RestoreSound, Calm, Open, ReachLocated
  <2>3. CheckSound' /\ ReportSound'
    BY <1>5, <2>1, StillLocated
       DEF allVars, readerVars, checkVars, ReadersInv, CheckSound, ReportSound, Calm,
           ReachLocated
  <2> QED  BY <1>1, <2>1, <2>2, <2>3 DEF ReadersInv, ReadersTypeOK
<1> QED  BY <1>2, <1>3, <1>4, <1>5 DEF ReadersNext

LEMMA ReadersStart == ReadersInit => ReadersInv
<1> SUFFICES ASSUME ReadersInit PROVE ReadersInv
  OBVIOUS
<1>1. SafeInv
  BY SafeInit DEF ReadersInit
<1>2. Cardinality({}) = 0 /\ NoPack \in Pack
  BY FS_EmptySet, ChunkTypes
<1>3. ReaderTypeOK
  <2>1. reading = {} /\ at = NoPack /\ during = {} /\ sound = FALSE
    BY DEF ReadersInit, ReaderInit
  <2>2. Cardinality(reading) <= 1
    BY <1>2, <2>1
  <2>3. sound \in BOOLEAN
    BY <2>1
  <2> QED  BY <1>2, <2>1, <2>2, <2>3 DEF ReaderTypeOK
<1>4. ReadersTypeOK
  BY <1>1, <1>3
     DEF ReadersInit, ReadersTypeOK, SafeInv, RestoreInit, RestoreTypeOK, CheckInit,
         CheckTypeOK
<1> QED
  BY <1>1, <1>4
     DEF ReadersInit, ReadersInv, ReaderInit, RestoreInit, CheckInit, ReadSound,
         RestoreSound, CheckSound, ReportSound, Open

LEMMA ReadersHold == ReadersSpec => []ReadersInv
BY ReadersStart, ReadersStep, PTL DEF ReadersSpec, allVars

(* ReadersTypeOK: every variable of the restore, the check and the reads   *)
(* they share keeps its type beside any writer.                            *)
THEOREM ReadersTypeCorrect == ReadersSpec => []ReadersTypeOK
<1>1. ReadersInv => ReadersTypeOK
  BY DEF ReadersInv
<1> QED  BY <1>1, ReadersHold, PTL

(* RestoreUndisturbed: without the lock a restore of an undamaged          *)
(* repository fails only if a sweep or a rebuild overlapped it, whatever   *)
(* else the writer, forget and the faults do meanwhile.                    *)
THEOREM RestoresGoThrough == ReadersSpec => []RestoreUndisturbed
<1>1. ReadersInv => RestoreUndisturbed
  BY DEF ReadersInv, RestoreSound, RestoreUndisturbed, Calm
<1> QED  BY <1>1, ReadersHold, PTL

(* NoFalseAlarm: a check of an undamaged repository reports no problem and *)
(* meets no failed assertion unless a sweep, a rebuild or a forget         *)
(* overlapped it.                                                          *)
THEOREM ChecksRaiseNoFalseAlarm == ReadersSpec => []NoFalseAlarm
<1>1. ReadersInv => NoFalseAlarm
  BY DEF ReadersInv, ReportSound, CheckSound, NoFalseAlarm
<1> QED  BY <1>1, ReadersHold, PTL

(* CleanReportIsTrue: when a check beside which neither a sweep nor a      *)
(* rebuild ran reports no problem, the snapshots it checked are            *)
(* restorable, however damaged the repository was when it began.           *)
THEOREM CleanReportsAreTrue == ReadersSpec => []CleanReportIsTrue
<1>1. ReadersInv => CleanReportIsTrue
  BY DEF ReadersInv, ReportSound, CleanReportIsTrue, Calm
<1> QED  BY <1>1, ReadersHold, PTL
=============================================================================
