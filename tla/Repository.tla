----------------------------- MODULE Repository -----------------------------
(***************************************************************************)
(* The repository (repo.py): one writer at a time, as the repository lock  *)
(* intends, runs backups, prunes and index rebuilds against the same packs *)
(* and index, while forget deletes snapshot records without the lock.      *)
(*                                                                         *)
(* A backup (backup/snapshot.py create_snapshot over backup/scanner.py)    *)
(* scans a directory, flushes, and publishes the snapshot record last.  A  *)
(* prune marks everything that the listed snapshots reach and then runs    *)
(* the sweep of GC.  A rebuild empties the index and scans every pack.     *)
(*                                                                         *)
(* A directory is flat: a set of file contents, each of them one chunk.    *)
(* A snapshot is an id with the listing that its root tree names.          *)
(*                                                                         *)
(* The constant Faults says what may go wrong:                             *)
(*   "stop"     an operation ends early, by the death of the process or by *)
(*              an exception, anywhere except in the two windows below     *)
(*   "sweep"    also between the deletion of a pack of dead chunks and the *)
(*              removal of their index entries                             *)
(*   "rebuild"  also while the index is being rebuilt                      *)
(*   "reuse"    after an exception the caller keeps using the session      *)
(*   "staging"  preparing a pack, or removing its temporary copy when it   *)
(*              is published, raises OSError in the middle of a scan,      *)
(*              which the scanner takes for an unreadable file             *)
(***************************************************************************)
EXTENDS ObjectStore, GC

CONSTANTS
  SnapId,     \* snapshot ids; bounds the snapshot records at any time
  Sources,    \* the directories that get backed up
  Faults

ASSUME SourcesAssumption == Sources \subseteq SUBSET Data

VARIABLES
  snaps,      \* the snapshot records in the backend
  pc,         \* the operation that holds the lock, and its phase
  src,        \* backup: files not yet scanned
  kept,       \* backup: entries of the root node so far
  cur,        \* backup: the file whose put() is flushing
  marks,      \* prune: listed snapshots not yet marked
  unscanned   \* rebuild: listed packs not yet indexed

backupVars == <<src, kept, cur>>
vars == <<storageVars, sessionVars, gcVars, snaps, pc, backupVars, marks,
          unscanned>>

Snapshot == SnapId \X SUBSET Data

TypeOK ==
  /\ StorageTypeOK /\ StoreTypeOK /\ GCTypeOK
  /\ snaps \subseteq Snapshot
  /\ pc \in {"idle", "scan", "final", "list", "mark", "collect", "rebuild"}
  /\ src \subseteq Data /\ kept \subseteq Data /\ cur \subseteq Data
  /\ marks \subseteq Snapshot
  /\ unscanned \subseteq Pack

Init ==
  /\ StorageInit /\ StoreInit
  /\ GCIdle /\ live = {}
  /\ snaps = {}
  /\ pc = "idle"
  /\ src = {} /\ kept = {} /\ cur = {}
  /\ marks = {}
  /\ unscanned = {}

-----------------------------------------------------------------------------
(* Helpers. *)

Listing(x) == x[2]

(* The chunks that the snapshot records reach. *)
Referenced == UNION {Reachable(Listing(x)) : x \in snaps}

ResetOperation ==
  /\ pc' = "idle"
  /\ src' = {} /\ kept' = {} /\ cur' = {}
  /\ marks' = {}
  /\ unscanned' = {}
  /\ EndGC

(* Bound: a backup starts only if the nonces and snapshot ids of the       *)
(* instance suffice to finish it.                                          *)
RoomFor(S) ==
  /\ \A c \in {FileChunk(d) : d \in S} \cup {TreeChunk(T) : T \in SUBSET S} :
       Has(c) \/ \E n \in Nonce : Fresh(<<c, n>>)
  /\ \E s \in SnapId : \A x \in snaps : x[1] # s

(* An exception leaves the operation.  The command line closes the session *)
(* without a flush; a caller that keeps it keeps the open writer and the   *)
(* pending table, and loses only the pack a running flush had taken.       *)
Raise ==
  /\ ResetOperation
  /\ IF "reuse" \in Faults
     THEN /\ staged' = {} /\ flushing' = "no"
          /\ UNCHANGED <<writer, pending>>
     ELSE Discard
  /\ UNCHANGED <<storageVars, snaps>>

-----------------------------------------------------------------------------
(* backup *)

BeginBackup ==
  /\ pc = "idle" /\ flushing = "no"
  /\ pc' = "scan"
  /\ src' \in Sources
  /\ RoomFor(src')
  /\ UNCHANGED <<storageVars, sessionVars, gcVars, snaps, kept, cur, marks,
                 unscanned>>

(* _scan_file: put() the content; the entry joins the node when put()      *)
(* returns, which is later if the put has to flush.                        *)
ScanFile(d) ==
  /\ pc = "scan" /\ d \in src
  /\ \/ PutDuplicate(FileChunk(d))
     \/ PutNew(FileChunk(d))
  /\ src' = src \ {d}
  /\ IF flushing' = "no"
     THEN kept' = kept \cup {d} /\ cur' = cur
     ELSE kept' = kept /\ cur' = {d}
  /\ UNCHANGED <<gcVars, snaps, pc, marks, unscanned>>

(* store_tree_node for the root, after its children. *)
StoreRoot ==
  /\ pc = "scan" /\ src = {}
  /\ \/ PutDuplicate(TreeChunk(kept))
     \/ PutNew(TreeChunk(kept))
  /\ pc' = "final"
  /\ UNCHANGED <<gcVars, snaps, backupVars, marks, unscanned>>

FinalFlush ==
  /\ pc = "final"
  /\ Flush
  /\ UNCHANGED <<gcVars, snaps, pc, backupVars, marks, unscanned>>

(* Mutant: the record is written before the store is flushed. *)
WriteSnapshotUnflushed ==
  /\ pc = "final" /\ flushing = "no"
  /\ \E s \in SnapId :
       /\ \A x \in snaps : x[1] # s
       /\ snaps' = snaps \cup {<<s, kept>>}
  /\ ResetOperation
  /\ UNCHANGED <<storageVars, sessionVars>>

(* The snapshot record is published under an unused id; the lock is        *)
(* released.                                                               *)
WriteSnapshot ==
  /\ pc = "final" /\ flushing = "no" /\ writer = {}
  /\ \E s \in SnapId :
       /\ \A x \in snaps : x[1] # s
       /\ snaps' = snaps \cup {<<s, kept>>}
  /\ ResetOperation
  /\ UNCHANGED <<storageVars, sessionVars>>

(* The two halves of every flush, whoever called it. *)
FlushPublish ==
  /\ PublishPack
  /\ UNCHANGED <<gcVars, snaps, pc, backupVars, marks, unscanned>>

(* Mutant: the file whose put() flushed the pack is not listed. *)
FlushReturnSkips ==
  /\ IndexPack
  /\ cur' = {}
  /\ UNCHANGED <<gcVars, snaps, pc, src, kept, marks, unscanned>>

FlushReturn ==
  /\ IndexPack
  /\ kept' = kept \cup cur
  /\ cur' = {}
  /\ UNCHANGED <<gcVars, snaps, pc, src, marks, unscanned>>

(* The scanner catches the OSError: the file is reported as skipped. *)
FlushSwallowed ==
  /\ "staging" \in Faults
  /\ pc = "scan"
  /\ FinalizeFails
  /\ cur' = {}
  /\ UNCHANGED <<gcVars, snaps, pc, src, kept, marks, unscanned>>

-----------------------------------------------------------------------------
(* forget, by any process, without the lock *)

(* Mutant: the packs that nothing reaches any more are freed at once. *)
ForgetFrees ==
  /\ \E x \in snaps :
       /\ snaps' = snaps \ {x}
       /\ packs' = {p \in packs : \E y \in snaps \ {x} :
                                  Ids(p) \cap Reachable(Listing(y)) # {}}
  /\ UNCHANGED <<index, sessionVars, gcVars, pc, backupVars, marks, unscanned>>

Forget ==
  /\ \E x \in snaps : snaps' = snaps \ {x}
  /\ UNCHANGED <<storageVars, sessionVars, gcVars, pc, backupVars, marks,
                 unscanned>>

-----------------------------------------------------------------------------
(* prune *)

(* list_snapshots: the names are listed first and then loaded one by one.  *)
BeginPrune ==
  /\ pc = "idle" /\ flushing = "no"
  /\ pc' = "list"
  /\ marks' = snaps
  /\ UNCHANGED <<storageVars, sessionVars, gcVars, snaps, backupVars,
                 unscanned>>

LoadSnapshots ==
  /\ pc = "list"
  /\ marks \subseteq snaps
  /\ pc' = "mark"
  /\ UNCHANGED <<storageVars, sessionVars, gcVars, snaps, backupVars, marks,
                 unscanned>>

(* A listed record was forgotten before it was loaded. *)
SnapshotMissing ==
  /\ pc = "list"
  /\ ~ marks \subseteq snaps
  /\ Raise

(* Mutant: tree nodes are left out of the live set. *)
MarkFilesOnly(x) ==
  /\ pc = "mark" /\ x \in marks
  /\ Readable(TreeChunk(Listing(x)))
  /\ live' = live \cup {FileChunk(d) : d \in Listing(x)}
  /\ marks' = marks \ {x}
  /\ UNCHANGED <<storageVars, sessionVars, gc, seen, todo, doomed, old, new,
                 orphs, snaps, pc, backupVars, unscanned>>

(* Mutant: a marked snapshot stays on the list. *)
MarkAgain(x) ==
  /\ pc = "mark" /\ x \in marks
  /\ Readable(TreeChunk(Listing(x)))
  /\ live' = live \cup Reachable(Listing(x))
  /\ UNCHANGED <<storageVars, sessionVars, gc, seen, todo, doomed, old, new,
                 orphs, snaps, pc, backupVars, marks, unscanned>>

(* collect_reachable_ids reads the tree node, never the file chunks. *)
MarkSnapshot(x) ==
  /\ pc = "mark" /\ x \in marks
  /\ Readable(TreeChunk(Listing(x)))
  /\ live' = live \cup Reachable(Listing(x))
  /\ marks' = marks \ {x}
  /\ UNCHANGED <<storageVars, sessionVars, gc, seen, todo, doomed, old, new,
                 orphs, snaps, pc, backupVars, unscanned>>

TreeMissing ==
  /\ pc = "mark"
  /\ \E x \in marks : ~Readable(TreeChunk(Listing(x)))
  /\ Raise

(* Mutant: the sweep starts before every snapshot is marked. *)
BeginCollectEarly ==
  /\ pc = "mark"
  /\ Classify
  /\ pc' = "collect"
  /\ UNCHANGED <<sessionVars, snaps, backupVars, marks, unscanned>>

BeginCollect ==
  /\ pc = "mark" /\ marks = {}
  /\ Classify
  /\ pc' = "collect"
  /\ UNCHANGED <<sessionVars, snaps, backupVars, marks, unscanned>>

CollectStep ==
  /\ pc = "collect"
  /\ \/ \E p \in todo : SweepDead(p) \/ SweepDefer(p) \/ RepackWrite(p)
     \/ RepackIndex
     \/ RepackDrop
     \/ RemoveDead
     \/ \E p \in orphs : AdoptOrphan(p) \/ DeleteOrphan(p)
  /\ UNCHANGED <<sessionVars, snaps, pc, backupVars, marks, unscanned>>

CollectFails ==
  /\ pc = "collect"
  /\ PackMissing
  /\ Raise

PruneDone ==
  /\ pc = "collect" /\ Collected
  /\ ResetOperation
  /\ UNCHANGED <<storageVars, sessionVars, snaps>>

-----------------------------------------------------------------------------
(* rebuild_index *)

(* Mutant: the index is not emptied first. *)
BeginRebuildKeeps ==
  /\ pc = "idle" /\ flushing = "no"
  /\ pc' = "rebuild"
  /\ unscanned' = packs
  /\ UNCHANGED <<storageVars, sessionVars, gcVars, snaps, backupVars, marks>>

(* The packs are listed and the index is emptied. *)
BeginRebuild ==
  /\ pc = "idle" /\ flushing = "no"
  /\ pc' = "rebuild"
  /\ unscanned' = packs
  /\ index' = EmptyIndex
  /\ UNCHANGED <<packs, sessionVars, gcVars, snaps, backupVars, marks>>

RebuildPack(p) ==
  /\ pc = "rebuild" /\ p \in unscanned
  /\ index' = AddPack(p)
  /\ unscanned' = unscanned \ {p}
  /\ UNCHANGED <<packs, sessionVars, gcVars, snaps, pc, backupVars, marks>>

RebuildDone ==
  /\ pc = "rebuild" /\ unscanned = {}
  /\ ResetOperation
  /\ UNCHANGED <<storageVars, sessionVars, snaps>>

-----------------------------------------------------------------------------
(* sessions and faults *)

(* Repository.close() flushes what an abandoned operation left staged.     *)
CloseFlush ==
  /\ pc = "idle"
  /\ Flush
  /\ UNCHANGED <<gcVars, snaps, pc, backupVars, marks, unscanned>>

(* The session ends without close(): the next one starts empty. *)
NewSession ==
  /\ pc = "idle" /\ flushing = "no"
  /\ pending # {}
  /\ Discard
  /\ UNCHANGED <<storageVars, gcVars, snaps, pc, backupVars, marks, unscanned>>

Stop ==
  /\ "stop" \in Faults
  /\ pc # "idle" \/ flushing # "no"
  /\ Unsettled => "sweep" \in Faults
  /\ pc = "rebuild" => "rebuild" \in Faults
  /\ Raise

-----------------------------------------------------------------------------
Operate ==
  \/ \E d \in src : ScanFile(d)
  \/ StoreRoot \/ FinalFlush \/ WriteSnapshot
  \/ FlushPublish \/ FlushReturn \/ FlushSwallowed
  \/ LoadSnapshots \/ SnapshotMissing
  \/ \E x \in marks : MarkSnapshot(x)
  \/ TreeMissing \/ BeginCollect \/ CollectStep \/ CollectFails \/ PruneDone
  \/ \E p \in unscanned : RebuildPack(p)
  \/ RebuildDone

Next ==
  \/ BeginBackup \/ BeginPrune \/ BeginRebuild
  \/ Operate
  \/ Forget
  \/ CloseFlush \/ NewSession \/ Stop

Spec == Init /\ [][Next]_vars

FairSpec == Spec /\ WF_vars(Operate)

-----------------------------------------------------------------------------
(* Properties. *)

(* Whatever goes wrong, no operation loses a chunk that a snapshot         *)
(* reaches: as long as some record reaches it, its bytes stay where get,   *)
(* prune or a rebuild finds them (cas/gc.py: live data always exists in    *)
(* at least one durably written pack before any deletion touches its old   *)
(* home).                                                                  *)
KeepsReferenced ==
  \A c \in Referenced \cap Referenced' : Findable(c) => Findable(c)'

NoReferencedChunkLost == [][KeepsReferenced]_vars

(* A new index entry always names a stored pack, and an entry starts to    *)
(* dangle only while a sweep holds its chunk among the dead it still has   *)
(* to remove: nothing a snapshot reaches ever dangles because of a step    *)
(* (cas/packfile.py and cas/objectstore.py: the ordering of flush;         *)
(* cas/gc.py: the ordering of the sweep).                                  *)
DanglesOnlyWhenDoomed ==
  \A c \in Chunk : Dangling(c)' => Dangling(c) \/ c \in doomed' \ Referenced

DanglingOnlyFromSweep == [][DanglesOnlyWhenDoomed]_vars

(* Everything that a snapshot record reaches is in the backend where the   *)
(* index or a rebuild finds it, at every instant.                          *)
SnapshotsFindable == \A c \in Referenced : Findable(c)

(* The record of a backup lists exactly the files that were scanned, and   *)
(* each of them is durable by then, also when its put() was a dedup hit    *)
(* or flushed a pack in the middle of the scan (flush before put_bytes).   *)
RecordedIsDurable ==
  \A x \in snaps' \ snaps : \A c \in Reachable(Listing(x)) : Located(c)

SnapshotAfterChunks == [][RecordedIsDurable]_vars

(* A prune that finishes leaves no pack without a live chunk: packs of     *)
(* dead chunks, the old packs of repacks and what interrupted backups and  *)
(* prunes left behind are gone (cas/gc.py: next GC's scan reclaims them).  *)
Reclaims ==
  pc = "collect" /\ Collected /\ pc' = "idle"
    => \A p \in packs : Ids(p) \cap live # {}

PruneReclaims == [][Reclaims]_vars

(* A rebuild that finishes leaves an index that names every stored chunk   *)
(* and nothing else, whatever the index was before (cas/index.py rebuild). *)
Rebuilds ==
  pc = "rebuild" /\ unscanned = {} /\ pc' = "idle" /\ index' = index
    => \A c \in Chunk : /\ Indexed(c) <=> c \in UNION {Ids(p) : p \in packs}
                        /\ ~Dangling(c)

RebuildHeals == [][Rebuilds]_vars

(* Every operation ends, by returning or by raising.                       *)
OperationEnds == pc # "idle" ~> pc = "idle"
=============================================================================
