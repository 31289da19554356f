----------------------------- MODULE ObjectStore -----------------------------
(***************************************************************************)
(* The write path of the object store (cas/objectstore.py put, flush,      *)
(* close) with the PackWriter it drives (cas/packfile.py).                 *)
(*                                                                         *)
(* A put stages a sealed blob in the open PackWriter and in the pending    *)
(* table; when the writer reaches PackSize the put flushes.  A flush has   *)
(* two durable effects, in this order: the pack blob is published in the   *)
(* backend, and then its entries enter the index in one transaction.  The  *)
(* session can die between the two.                                        *)
(***************************************************************************)
EXTENDS Storage

CONSTANT PackSize     \* staged chunks at which a put flushes the open pack

ASSUME PackSizeAssumption == PackSize \in Nat \ {0}

VARIABLES
  writer,     \* blobs in the open PackWriter; {} when there is none
  pending,    \* the read-your-writes table: blobs put() calls stored
  staged,     \* the pack a running flush is finalizing
  flushing    \* where the running flush is

sessionVars == <<writer, pending, staged, flushing>>

StoreTypeOK ==
  /\ writer  \in Pack
  /\ pending \in Pack
  /\ staged  \in Pack
  /\ flushing \in {"no", "finalize", "index"}

StoreInit ==
  /\ writer = {} /\ pending = {} /\ staged = {}
  /\ flushing = "no"

(* has(): the dedup test. *)
Has(c) == c \in Ids(pending) \/ Indexed(c)

(* get() returns the chunk; the alternative is ChunkNotFound. *)
Readable(c) == c \in Ids(pending) \/ Located(c)

(* A 96-bit random nonce does not repeat, so a new sealed blob is in no    *)
(* pack that anything still names.                                         *)
Fresh(b) == \A p \in packs \cup IndexedPacks \cup {writer, pending, staged} :
              b \notin p

(* Enter flush(): the writer is taken out of the session before finalize. *)
BeginFlush(w) ==
  /\ staged' = w
  /\ writer' = {}
  /\ flushing' = "finalize"

(* put() of a chunk that the session or the index already has. *)
PutDuplicate(c) ==
  /\ flushing = "no"
  /\ Has(c)
  /\ UNCHANGED <<storageVars, sessionVars>>

(* put() of a new chunk: seal, stage, and flush when the pack is full. *)
PutNew(c) ==
  /\ flushing = "no"
  /\ ~Has(c)
  /\ \E n \in Nonce :
       /\ Fresh(<<c, n>>)
       /\ pending' = pending \cup {<<c, n>>}
       /\ LET w == writer \cup {<<c, n>>} IN
          IF Cardinality(w) >= PackSize
          THEN BeginFlush(w)
          ELSE /\ writer' = w
               /\ UNCHANGED <<staged, flushing>>
  /\ UNCHANGED storageVars

(* flush() or close() called by the client; with no writer it returns. *)
Flush ==
  /\ flushing = "no"
  /\ writer # {}
  /\ BeginFlush(writer)
  /\ UNCHANGED <<storageVars, pending>>

(* PackWriter.finalize returned: put_file published the pack. *)
PublishPack ==
  /\ flushing = "finalize"
  /\ packs' = packs \cup {staged}
  /\ flushing' = "index"
  /\ UNCHANGED <<index, writer, pending, staged>>

(* Mutant: pending.clear() is forgotten. *)
IndexPackKeepsPending ==
  /\ flushing = "index"
  /\ index' = AddPack(staged)
  /\ staged' = {}
  /\ flushing' = "no"
  /\ UNCHANGED <<packs, writer, pending>>

(* index.add_pack committed; flush clears pending and returns. *)
IndexPack ==
  /\ flushing = "index"
  /\ index' = AddPack(staged)
  /\ pending' = {}
  /\ staged' = {}
  /\ flushing' = "no"
  /\ UNCHANGED <<packs, writer>>

(* finalize raised, before the pack was published or after, when it        *)
(* removes the temporary copy: the staged blobs are gone or in an orphan,  *)
(* the writer is already None, and pending.clear() is not reached.         *)
FinalizeFails ==
  /\ flushing # "no"
  /\ staged' = {}
  /\ flushing' = "no"
  /\ UNCHANGED <<storageVars, writer, pending>>

(* The session ends without a flush: everything staged is abandoned. *)
Discard ==
  /\ writer' = {} /\ pending' = {} /\ staged' = {}
  /\ flushing' = "no"
=============================================================================
