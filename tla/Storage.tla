------------------------------- MODULE Storage -------------------------------
(***************************************************************************)
(* The durable half of the chunk store: immutable pack blobs in the        *)
(* backend (cas/packfile.py, cas/backend) and the LMDB chunk index         *)
(* (cas/index.py), with the pure operators on them.                        *)
(*                                                                         *)
(* A chunk is named by its content, so a chunk IS its name here: the       *)
(* content of a file (each content is one chunk) or a tree node, which is  *)
(* the listing it serializes.  A sealed blob is a chunk under a fresh      *)
(* nonce.  A pack is named by the hash of its bytes, so a pack IS the set  *)
(* of sealed blobs it holds: two packs coincide iff they hold the same     *)
(* blobs, as a repack repeated after a crash does.                         *)
(***************************************************************************)
EXTENDS Naturals, FiniteSets

CONSTANTS
  Data,       \* file contents that the source directories may hold
  Nonce       \* encryption nonces; bounds how often one chunk is stored

FileChunk(d) == <<"file", d>>
TreeChunk(S) == <<"tree", S>>

Chunk == {FileChunk(d) : d \in Data} \cup {TreeChunk(S) : S \in SUBSET Data}

Sealed == Chunk \X Nonce
Pack   == SUBSET Sealed

(* PackWriter.finalize refuses to write an empty pack, so the empty set    *)
(* names no pack: it stands for "no index entry".                          *)
NoPack == {}

(* The chunk ids in a set of sealed blobs: what iter_entries yields.       *)
Ids(p) == {b[1] : b \in p}

(* collect_reachable_ids: the tree node and every chunk it lists.          *)
Reachable(S) == {TreeChunk(S)} \cup {FileChunk(d) : d \in S}

VARIABLES
  packs,      \* pack blobs present in the backend
  index       \* chunk id -> pack that the index names for it, or NoPack

storageVars == <<packs, index>>

StorageTypeOK ==
  /\ packs \subseteq Pack
  /\ index \in [Chunk -> Pack]

StorageInit ==
  /\ packs = {}
  /\ index = [c \in Chunk |-> NoPack]

-----------------------------------------------------------------------------
(* The transactions of the index, each one atomic (LMDB). *)

Indexed(c) == index[c] # NoPack

IndexedPacks == {index[c] : c \in Chunk} \ {NoPack}

(* add_pack: every entry of the pack, overwriting what was there. *)
AddPack(p) == [c \in Chunk |-> IF c \in Ids(p) THEN p ELSE index[c]]

(* remove: drop the entries of these chunks. *)
RemoveIds(C) == [c \in Chunk |-> IF c \in C THEN NoPack ELSE index[c]]

EmptyIndex == [c \in Chunk |-> NoPack]

-----------------------------------------------------------------------------
(* What a reader can get back. *)

(* get succeeds: the index names a pack that the backend holds. *)
Located(c) == Indexed(c) /\ index[c] \in packs

(* The index names a pack that is gone: get raises ChunkNotFound, but has  *)
(* still answers yes.                                                      *)
Dangling(c) == Indexed(c) /\ index[c] \notin packs

OrphanPacks == packs \ IndexedPacks

(* The bytes of c are safe: get finds them, or the index knows nothing of  *)
(* c and an orphan pack holds it, where prune adopts it and a rebuild      *)
(* finds it.                                                               *)
Findable(c) ==
  \/ Located(c)
  \/ ~Indexed(c) /\ \E p \in OrphanPacks : c \in Ids(p)
=============================================================================
