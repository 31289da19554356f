---------------------------- MODULE RepositoryInv ----------------------------
(***************************************************************************)
(* The inductive invariant behind the safety properties of Repository.     *)
(* SafeInv holds under every fault; it is checked by a run and proved in   *)
(* RepositoryProofs.                                                       *)
(***************************************************************************)
EXTENDS Repository

(* An index entry names a pack that holds its chunk. *)
IndexSound == \A c \in Chunk : Indexed(c) => c \in Ids(index[c])

(* Flushes run outside prune and rebuild, so nothing deletes a pack        *)
(* between its publication and its transaction.                            *)
FlushSound ==
  /\ flushing # "no" => pc \in {"idle", "scan", "final"}
  /\ flushing = "index" => staged \in packs

(* No snapshot record escapes the mark: records are only deleted while the *)
(* lock is prune's.                                                        *)
MarkSound ==
  /\ pc \in {"list", "mark", "collect"} =>
       \A x \in snaps : x \in marks \/ Reachable(Listing(x)) \subseteq live
  /\ pc = "collect" => marks = {}

(* A sweep runs only inside a prune, and starts with nothing doomed. *)
PhaseSound ==
  /\ gc # "no" <=> pc = "collect"
  /\ gc = "no" => doomed = {}

(* What classify saw stays true of every pack that is still to be swept:   *)
(* an entry is as it was seen, or it is live and was moved to a pack that  *)
(* classify did not see.  A dead chunk is waiting, doomed, or deferred in  *)
(* a pack with live chunks.                                                *)
SweepSound ==
  gc \in {"sweep", "repoint", "drop"} =>
    /\ \A c \in Chunk : seen[c] # NoPack => c \in Ids(seen[c])
    /\ \A c \in Chunk : \/ index[c] = seen[c]
                        \/ c \in live /\ \A d \in Chunk : seen[d] # index[c]
    /\ \A p \in todo : p # NoPack /\ DeadIn(p) # {}
    /\ doomed \cap live = {}
    /\ \A c \in Chunk \ live :
         seen[c] # NoPack =>
           seen[c] \in todo \/ c \in doomed \/ LiveIn(seen[c]) # {}

(* A repack copies what is live and then moves all of it. *)
RepackSound ==
  /\ gc \in {"repoint", "drop"} =>
       /\ old # NoPack
       /\ DeadIn(old) # {}
       /\ DeadIn(old) \subseteq doomed
       /\ new = {b \in old : b[1] \in LiveIn(old)}
       /\ new \in packs
  /\ gc = "drop" => \A c \in live : index[c] # old

(* Orphan packs are unknown to the index, all others hold a live chunk.    *)
OrphanSound ==
  gc = "orphans" =>
    /\ orphs \subseteq packs /\ orphs \cap IndexedPacks = {}
    /\ \A p \in packs \ orphs : Ids(p) \cap live # {}

(* A rebuild indexes stored packs, and has indexed all it is done with.    *)
RebuildSound ==
  pc = "rebuild" =>
    /\ unscanned \subseteq packs
    /\ \A c \in Chunk : ~Dangling(c)
    /\ \A p \in packs \ unscanned : \A c \in Ids(p) : Indexed(c)

(* What the deletions of a prune and the ordering of every index update    *)
(* rest on, whatever stops or fails (cas/gc.py: no step can strand a live  *)
(* chunk).                                                                 *)
SafeInv ==
  /\ TypeOK
  /\ IndexSound /\ FlushSound /\ MarkSound /\ PhaseSound
  /\ SweepSound /\ RepackSound /\ OrphanSound /\ RebuildSound

-----------------------------------------------------------------------------
(* What also holds as long as Faults allows only stops and interrupted     *)
(* rebuilds.                                                               *)

(* The chunk is in the session or located by the index. *)
Stored(c) == c \in Ids(pending) \/ Located(c)

(* Only what a running sweep has doomed dangles, so that dedup hits are    *)
(* real everywhere else.                                                   *)
Settled ==
  /\ \A c \in Chunk : Dangling(c) => c \in doomed
  /\ gc \notin {"sweep", "repoint", "drop"} => doomed = {}
  /\ gc \in {"sweep", "repoint", "drop"} => todo \subseteq packs
  /\ gc \in {"repoint", "drop"} => old \notin todo

(* The pending table is exactly what is staged. *)
SessionSound ==
  /\ pending = writer \cup staged
  /\ flushing = "no" => staged = {} /\ cur = {}
  /\ flushing # "no" => writer = {}

(* A backup only lists what is stored. *)
BackupSound ==
  /\ pc \in {"scan", "final"} => \A d \in kept : Stored(FileChunk(d))
  /\ pc = "final" => Stored(TreeChunk(kept)) /\ src = {} /\ cur = {}
  /\ \A d \in cur : FileChunk(d) \in Ids(pending)
  /\ pc \notin {"scan", "final"} => kept = {} /\ cur = {}

CleanInv ==
  /\ SafeInv
  /\ Settled /\ SessionSound /\ BackupSound
  /\ SnapshotsFindable
=============================================================================
