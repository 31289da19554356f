--------------------------------- MODULE GC ---------------------------------
(***************************************************************************)
(* The sweep of the garbage collector (cas/gc.py collect).                 *)
(*                                                                         *)
(* The caller supplies the set of live chunk ids.  Packs are immutable, so *)
(* the unit of deletion is the pack: a pack whose indexed chunks are all   *)
(* dead is deleted, a mixed pack is repacked once its dead share reaches   *)
(* the threshold.  The index entries of the dead go last, in one           *)
(* transaction; until then they dangle.  Packs that the index does not     *)
(* name are deleted, or adopted when they hold a live chunk.               *)
(*                                                                         *)
(* Every durable effect is a step of its own: the process can die between  *)
(* any two of them.                                                        *)
(***************************************************************************)
EXTENDS Storage

CONSTANTS RepackNum, RepackDen   \* repack_threshold = RepackNum / RepackDen

ASSUME ThresholdAssumption ==
  /\ RepackNum \in Nat
  /\ RepackDen \in Nat \ {0}
  /\ RepackNum <= RepackDen

VARIABLES
  gc,         \* where collect() is
  live,       \* the mark result
  seen,       \* the index as classify iterated it
  todo,       \* classified packs with dead chunks, not yet swept
  doomed,     \* all_dead_ids
  old, new,   \* the pack being repacked and its replacement
  orphs       \* listed packs unknown to the index, not yet handled

gcVars == <<gc, live, seen, todo, doomed, old, new, orphs>>

GCTypeOK ==
  /\ gc \in {"no", "sweep", "repoint", "drop", "orphans"}
  /\ live \subseteq Chunk
  /\ seen \in [Chunk -> Pack]
  /\ todo \subseteq Pack
  /\ doomed \subseteq Chunk
  /\ old \in Pack /\ new \in Pack
  /\ orphs \subseteq Pack

(* No collect() is running; live is left to the caller. *)
GCIdle ==
  /\ gc = "no"
  /\ seen = EmptyIndex
  /\ todo = {} /\ doomed = {} /\ old = NoPack /\ new = NoPack /\ orphs = {}

(* The partition that classify made of the chunks of pack p. *)
LiveIn(p) == {c \in live : seen[c] = p}
DeadIn(p) == {c \in Chunk \ live : seen[c] = p}

(* Step 3 happened for some doomed chunk, step 4 did not. *)
Unsettled == \E c \in doomed : Dangling(c)

(* dead_fraction < repack_threshold *)
BelowThreshold(p) ==
  Cardinality(DeadIn(p)) * RepackDen
    < RepackNum * (Cardinality(LiveIn(p)) + Cardinality(DeadIn(p)))

-----------------------------------------------------------------------------
(* Fully live packs are kept: only the others stay to be swept. *)
Classify ==
  /\ gc = "no"
  /\ gc' = "sweep"
  /\ seen' = index
  /\ todo' = {p \in IndexedPacks : \E c \in Chunk \ live : index[c] = p}
  /\ UNCHANGED <<storageVars, live, doomed, old, new, orphs>>

(* Mutant: the pack goes, its chunks do not join all_dead_ids. *)
SweepDeadForgets(p) ==
  /\ gc = "sweep" /\ p \in todo
  /\ LiveIn(p) = {}
  /\ p \in packs
  /\ packs' = packs \ {p}
  /\ todo' = todo \ {p}
  /\ UNCHANGED <<index, gc, live, seen, doomed, old, new, orphs>>

(* Mutant: one dead chunk condemns the pack. *)
SweepAnyDead(p) ==
  /\ gc = "sweep" /\ p \in todo
  /\ p \in packs
  /\ packs' = packs \ {p}
  /\ doomed' = doomed \cup DeadIn(p)
  /\ todo' = todo \ {p}
  /\ UNCHANGED <<index, gc, live, seen, old, new, orphs>>

SweepDead(p) ==
  /\ gc = "sweep" /\ p \in todo
  /\ LiveIn(p) = {}
  /\ p \in packs
  /\ packs' = packs \ {p}
  /\ doomed' = doomed \cup DeadIn(p)
  /\ todo' = todo \ {p}
  /\ UNCHANGED <<index, gc, live, seen, old, new, orphs>>

(* Dead entries of a deferred pack stay in the index. *)
SweepDefer(p) ==
  /\ gc = "sweep" /\ p \in todo
  /\ LiveIn(p) # {}
  /\ BelowThreshold(p)
  /\ todo' = todo \ {p}
  /\ UNCHANGED <<storageVars, gc, live, seen, doomed, old, new, orphs>>

(* Mutant: the original is deleted before the index names the copy. *)
RepackInPlace(p) ==
  /\ gc = "sweep" /\ p \in todo
  /\ LiveIn(p) # {} /\ ~BelowThreshold(p)
  /\ p \in packs
  /\ old' = p
  /\ new' = {b \in p : b[1] \in LiveIn(p)}
  /\ packs' = (packs \ {p}) \cup {new'}
  /\ doomed' = doomed \cup DeadIn(p)
  /\ todo' = todo \ {p}
  /\ gc' = "repoint"
  /\ UNCHANGED <<index, live, seen, orphs>>

(* Step 1: the live sealed blobs, copied verbatim into a new pack. *)
RepackWrite(p) ==
  /\ gc = "sweep" /\ p \in todo
  /\ LiveIn(p) # {} /\ ~BelowThreshold(p)
  /\ p \in packs
  /\ old' = p
  /\ new' = {b \in p : b[1] \in LiveIn(p)}
  /\ packs' = packs \cup {new'}
  /\ doomed' = doomed \cup DeadIn(p)
  /\ todo' = todo \ {p}
  /\ gc' = "repoint"
  /\ UNCHANGED <<index, live, seen, orphs>>

(* Step 2. *)
RepackIndex ==
  /\ gc = "repoint"
  /\ index' = AddPack(new)
  /\ gc' = "drop"
  /\ UNCHANGED <<packs, live, seen, todo, doomed, old, new, orphs>>

(* Step 3. *)
RepackDrop ==
  /\ gc = "drop"
  /\ packs' = packs \ {old}
  /\ old' = NoPack /\ new' = NoPack
  /\ gc' = "sweep"
  /\ UNCHANGED <<index, live, seen, todo, doomed, orphs>>

(* The next pack must be deleted or repacked and the backend lacks it:     *)
(* size() or read_blob() raises BlobNotFound.                              *)
PackMissing ==
  /\ gc = "sweep"
  /\ \E p \in todo : p \notin packs /\ (LiveIn(p) = {} \/ ~BelowThreshold(p))

(* Mutant: step 4 ends the sweep, orphan packs are not looked for. *)
RemoveDeadOnly ==
  /\ gc = "sweep" /\ todo = {}
  /\ index' = RemoveIds(doomed)
  /\ UNCHANGED <<packs, live, seen, todo, old, new>>
  /\ doomed' = {}
  /\ orphs' = {}
  /\ gc' = "orphans"

(* Step 4, and the listing of the packs that the index does not name. *)
RemoveDead ==
  /\ gc = "sweep" /\ todo = {}
  /\ index' = RemoveIds(doomed)
  /\ UNCHANGED <<packs, live, seen, todo, old, new>>
  /\ doomed' = {}
  /\ orphs' = OrphanPacks'
  /\ gc' = "orphans"

(* An orphan pack that holds a live chunk enters the index, all of it. *)
AdoptOrphan(p) ==
  /\ gc = "orphans" /\ p \in orphs
  /\ Ids(p) \cap live # {}
  /\ index' = AddPack(p)
  /\ orphs' = orphs \ {p}
  /\ UNCHANGED <<packs, gc, live, seen, todo, doomed, old, new>>

DeleteOrphan(p) ==
  /\ gc = "orphans" /\ p \in orphs
  /\ Ids(p) \cap live = {}
  /\ packs' = packs \ {p}
  /\ orphs' = orphs \ {p}
  /\ UNCHANGED <<index, gc, live, seen, todo, doomed, old, new>>

(* collect() returns or raises: its local state is gone. *)
EndGC ==
  /\ gc' = "no"
  /\ live' = {}
  /\ seen' = EmptyIndex
  /\ todo' = {} /\ doomed' = {} /\ old' = NoPack /\ new' = NoPack /\ orphs' = {}

Collected == gc = "orphans" /\ orphs = {}
=============================================================================
