------------------------------ MODULE PackFile ------------------------------
(***************************************************************************)
(* The bytes of packs (cas/packfile.py): how PackWriter lays out sealed    *)
(* blobs behind their entry headers, how read_blob finds one again by its  *)
(* offset, how a repack (cas/gc.py) copies them, and how iter_entries hops *)
(* from header to header when the index is rebuilt (cas/index.py).         *)
(*                                                                         *)
(* A byte string is a sequence of cells.  A digest is the string it was    *)
(* taken of, so the name of a pack is the string its writer hashed.        *)
(*                                                                         *)
(* The constant Faults says what may go wrong:                             *)
(*   "write"   a write to the staging file stores a part of a blob and     *)
(*             raises OSError; the scanner skips the file and goes on      *)
(*   "damage"  cells of a stored pack rot, or its tail is cut off          *)
(***************************************************************************)
EXTENDS Naturals, Sequences

CONSTANTS
  Chunk,
  Plain, Zstd,  \* size of each chunk, as it is and compressed
  PackSize,     \* staged size from which a pack is flushed
  MaxSeals,     \* bounds how many blobs are ever sealed
  MaxDamage,    \* bounds how often the backend damages a pack
  Faults

ASSUME SizesAssumption == Plain \in [Chunk -> Nat] /\ Zstd \in [Chunk -> Nat]

Magic == <<"magic">>
Rot   == <<"rot">>

(* An entry header is a chunk id and the length of the blob behind it.     *)
HeaderLen == 2
EntryHeader(c, len) == <<<<"id", c>>, <<"len", len>>>>

(* compress keeps what is smaller, behind a tag; encrypt puts a nonce in   *)
(* front and a tag behind: one cell stands for all of that.                *)
SealedLen(c) == 1 + (IF Zstd[c] < Plain[c] THEN Zstd[c] ELSE Plain[c])

(* No two sealed blobs are equal, since every nonce is fresh. *)
SealedBlob(c, n) == [i \in 1..SealedLen(c) |-> <<"blob", c, n, i>>]

VARIABLES
  packs,      \* pack blobs in the backend, by name
  index,      \* chunk -> location, or NoLocation
  writer,     \* the open PackWriter, or NoWriter
  mode,       \* what runs: "store", "repack" or "rebuild"
  source,     \* name of the pack that a repack or a scan reads, or NoName
  todo,       \* repack: chunks to copy; rebuild: names of the packs to scan
  pos, found, \* rebuild: place in the current pack, entries seen in it
  seals,      \* number of blobs sealed so far, which numbers the nonces
  damages,    \* number of times the backend damaged a pack
  trusted     \* history: rebuilds have only met clean packs

jobVars == <<mode, source, todo, pos, found>>
vars == <<packs, index, writer, jobVars, seals, damages, trusted>>

Entry(c, off, len) == [chunk |-> c, offset |-> off, length |-> len]

NoName     == <<>>
NoWriter   == [file |-> <<>>, hashed |-> NoName, entries |-> {}, torn |-> FALSE]
NoLocation == [pack |-> NoName, entry |-> Entry(Magic, 0, 0)]

(* PackWriter.__init__ stages the header of the pack.  A published pack    *)
(* keeps the record of its writer: only the file is in the backend, under  *)
(* the name that was hashed; the entries and torn, that a write stopped    *)
(* half way, are history.                                                  *)
NewWriter == [NoWriter EXCEPT !.file = <<Magic>>, !.hashed = <<Magic>>]

Init ==
  /\ packs = [n \in {} |-> NoWriter]
  /\ index = [c \in Chunk |-> NoLocation]
  /\ writer = NoWriter
  /\ mode = "store" /\ source = NoName /\ todo = {} /\ pos = 0 /\ found = {}
  /\ seals = 0 /\ damages = 0 /\ trusted = TRUE

-----------------------------------------------------------------------------
(* PackWriter *)

(* Mutant: the offset is computed from what was hashed, not from tell(). *)
AddedByCount(w, c, blob) ==
  [w EXCEPT !.file = @ \o EntryHeader(c, Len(blob)) \o blob,
            !.hashed = @ \o EntryHeader(c, Len(blob)) \o blob,
            !.entries = @ \cup {Entry(c, Len(w.hashed) + HeaderLen, Len(blob))}]

(* add: the blob starts where the file ends behind its header. *)
Added(w, c, blob) ==
  [w EXCEPT !.file = @ \o EntryHeader(c, Len(blob)) \o blob,
            !.hashed = @ \o EntryHeader(c, Len(blob)) \o blob,
            !.entries = @ \cup {Entry(c, Len(w.file) + HeaderLen, Len(blob))}]

(* add fails while it writes the blob: k cells stay in the file, the hash  *)
(* has seen the header only, and no entry is recorded.                     *)
HalfAdded(w, c, blob, k) ==
  [w EXCEPT !.file = @ \o EntryHeader(c, Len(blob)) \o SubSeq(blob, 1, k),
            !.hashed = @ \o EntryHeader(c, Len(blob)),
            !.torn = TRUE]

(* add_pack: of two entries for a chunk the later one stays. *)
Indexing(name, entries, i) ==
  [c \in Chunk |->
     LET mine == {e \in entries : e.chunk = c} IN
     IF mine = {} THEN i[c]
     ELSE [pack |-> name,
           entry |-> CHOOSE e \in mine : \A f \in mine : f.offset <= e.offset]]

(* finalize publishes the pack under its digest. *)
Publish(w) == [n \in DOMAIN packs \cup {w.hashed} |->
                 IF n = w.hashed THEN w ELSE packs[n]]

-----------------------------------------------------------------------------
(* ObjectStore.put and flush; what may happen between the effects of a     *)
(* flush is in Repository.                                                 *)

Open == writer # NoWriter
Staged == IF Open THEN writer ELSE NewWriter

Indexed(c) == index[c] # NoLocation

(* Written without a failure, and still as it was written. *)
Clean(name) == ~packs[name].torn /\ packs[name].file = name

(* Not a dedup hit: put() seals the chunk. *)
Sealing(c) ==
  /\ mode = "store" /\ seals < MaxSeals
  /\ ~Indexed(c) /\ \A e \in writer.entries : e.chunk # c
  /\ seals' = seals + 1
  /\ UNCHANGED <<jobVars, damages, trusted>>

Put(c) ==
  /\ Sealing(c)
  /\ LET w == Added(Staged, c, SealedBlob(c, seals)) IN
     IF Len(w.file) >= PackSize
     THEN /\ packs' = Publish(w)
          /\ index' = Indexing(w.hashed, w.entries, index)
          /\ writer' = NoWriter
     ELSE writer' = w /\ UNCHANGED <<packs, index>>

(* The OSError leaves put() before the pending table has the chunk; the    *)
(* writer stays open.                                                      *)
PutFails(c) ==
  /\ "write" \in Faults
  /\ Sealing(c)
  /\ \E k \in 0..SealedLen(c) - 1 :
       writer' = HalfAdded(Staged, c, SealedBlob(c, seals), k)
  /\ UNCHANGED <<packs, index>>

Flush ==
  /\ mode = "store" /\ writer.entries # {}
  /\ packs' = Publish(writer)
  /\ index' = Indexing(writer.hashed, writer.entries, index)
  /\ writer' = NoWriter
  /\ UNCHANGED <<jobVars, seals, damages, trusted>>

(* The session ends without a flush, or flush() meets a pack whose every   *)
(* add failed half way: finalize refuses to write it.                      *)
Abandon ==
  /\ mode = "store" /\ Open
  /\ writer' = NoWriter
  /\ UNCHANGED <<packs, index, jobVars, seals, damages, trusted>>

-----------------------------------------------------------------------------
(* collect: packs with dead chunks *)

GetRange(file, off, len) == SubSeq(file, off + 1, off + len)

ChunksIn(name) == {c \in Chunk : Indexed(c) /\ index[c].pack = name}

Without(name) == [n \in DOMAIN packs \ {name} |-> packs[n]]

EndJob ==
  /\ mode' = "store" /\ source' = NoName /\ todo' = {}
  /\ pos' = 0 /\ found' = {}

Unindex(C) == [c \in Chunk |-> IF c \in C THEN NoLocation ELSE index[c]]

(* No chunk of the pack is live: the pack goes, and its entries. *)
DropPack(name) ==
  /\ mode = "store" /\ ~Open /\ ChunksIn(name) # {}
  /\ packs' = Without(name)
  /\ index' = Unindex(ChunksIn(name))
  /\ UNCHANGED <<writer, jobVars, seals, damages, trusted>>

BeginRepack(name) ==
  /\ mode = "store" /\ ~Open
  /\ \E live \in (SUBSET ChunksIn(name)) \ {{}, ChunksIn(name)} : todo' = live
  /\ mode' = "repack" /\ source' = name
  /\ writer' = NewWriter
  /\ UNCHANGED <<packs, index, pos, found, seals, damages, trusted>>

(* read_blob of a live chunk, its sealed blob copied as it is.  A range    *)
(* that the pack is too short for raises BackendError.                     *)
CopyBlob(c) ==
  LET file == packs[source].file
      e == index[c].entry
  IN
  /\ mode = "repack" /\ c \in todo
  /\ IF e.offset + e.length <= Len(file)
     THEN /\ writer' = Added(writer, c, GetRange(file, e.offset, e.length))
          /\ todo' = todo \ {c}
          /\ UNCHANGED <<mode, source, pos, found>>
     ELSE writer' = NoWriter /\ EndJob
  /\ UNCHANGED <<packs, index, seals, damages, trusted>>

(* Mutant: the entries of the dead chunks stay in the index. *)
EndRepackKeepsDead ==
  /\ mode = "repack" /\ todo = {}
  /\ packs' = [n \in (DOMAIN packs \ {source}) \cup {writer.hashed} |->
                 IF n = writer.hashed THEN writer ELSE packs[n]]
  /\ index' = Indexing(writer.hashed, writer.entries, index)
  /\ writer' = NoWriter
  /\ EndJob
  /\ UNCHANGED <<seals, damages, trusted>>

(* The copy is published and indexed; the original and the entries of the  *)
(* dead chunks go.                                                         *)
EndRepack ==
  /\ mode = "repack" /\ todo = {}
  /\ packs' = [n \in (DOMAIN packs \ {source}) \cup {writer.hashed} |->
                 IF n = writer.hashed THEN writer ELSE packs[n]]
  /\ index' = Indexing(writer.hashed, writer.entries, Unindex(ChunksIn(source)))
  /\ writer' = NoWriter
  /\ EndJob
  /\ UNCHANGED <<seals, damages, trusted>>

-----------------------------------------------------------------------------
(* ChunkIndex.rebuild over iter_entries *)

BeginRebuild ==
  /\ mode = "store" /\ ~Open
  /\ mode' = "rebuild" /\ todo' = DOMAIN packs
  /\ index' = Unindex(Chunk)
  /\ UNCHANGED <<packs, writer, source, pos, found, seals, damages, trusted>>

OpenPack(name) ==
  /\ mode = "rebuild" /\ source = NoName /\ name \in todo
  /\ LET file == packs[name].file IN
     IF Len(file) > 0 /\ file[1] = Magic
     THEN source' = name /\ todo' = todo \ {name} /\ pos' = 1
          /\ UNCHANGED <<mode, found>>
     ELSE EndJob
  /\ UNCHANGED <<packs, index, writer, seals, damages, trusted>>

(* The two fields of the header at pos; what is no header reads as an      *)
(* unknown chunk, or as any length.                                        *)
IdAt(file, p) == {c \in Chunk : file[p + 1] = <<"id", c>>}
LengthAt(file, p) ==
  LET sane == {len \in 0..Len(file) : file[p + 2] = <<"len", len>>}
  IN IF sane = {} THEN 0..Len(file) ELSE sane

(* Mutant: the next header is looked for behind a header of its own. *)
HopTooFar(off, len) == off + len + HeaderLen

Hop(off, len) == off + len

(* PackFormatError ends the rebuild, and the index stays as far as it got. *)
ScanEntry ==
  LET file == packs[source].file
      off == pos + HeaderLen
  IN
  /\ mode = "rebuild" /\ source # NoName /\ pos < Len(file)
  /\ IF off > Len(file) THEN EndJob
     ELSE \E len \in LengthAt(file, pos) :
            IF off + len > Len(file) THEN EndJob
            ELSE /\ found' = found \cup {Entry(c, off, len) : c \in IdAt(file, pos)}
                 /\ pos' = Hop(off, len)
                 /\ UNCHANGED <<mode, source, todo>>
  /\ UNCHANGED <<packs, index, writer, seals, damages, trusted>>

(* Mutant: every pack replaces what the packs before it put in the index.  *)
PackScannedAlone ==
  /\ mode = "rebuild" /\ source # NoName /\ pos = Len(packs[source].file)
  /\ index' = Indexing(source, found, [c \in Chunk |-> NoLocation])
  /\ source' = NoName /\ pos' = 0 /\ found' = {}
  /\ trusted' = (trusted /\ Clean(source))
  /\ UNCHANGED <<packs, writer, mode, todo, seals, damages>>

PackScanned ==
  /\ mode = "rebuild" /\ source # NoName /\ pos = Len(packs[source].file)
  /\ index' = Indexing(source, found, index)
  /\ source' = NoName /\ pos' = 0 /\ found' = {}
  /\ trusted' = (trusted /\ Clean(source))
  /\ UNCHANGED <<packs, writer, mode, todo, seals, damages>>

EndRebuild ==
  /\ mode = "rebuild" /\ source = NoName /\ todo = {}
  /\ EndJob
  /\ UNCHANGED <<packs, index, writer, seals, damages, trusted>>

-----------------------------------------------------------------------------
(* The medium *)

(* One cell rots, or the tail is lost.  Bound: not in the middle of a job,  *)
(* which reads every cell once.                                            *)
Damage(name) ==
  /\ "damage" \in Faults /\ damages < MaxDamage
  /\ mode = "store"
  /\ damages' = damages + 1
  /\ \E i \in DOMAIN packs[name].file :
       \/ packs' = [packs EXCEPT ![name].file[i] = Rot]
       \/ packs' = [packs EXCEPT ![name].file = SubSeq(@, 1, i - 1)]
  /\ UNCHANGED <<index, writer, jobVars, seals, trusted>>

Next ==
  \/ \E c \in Chunk : Put(c) \/ PutFails(c)
  \/ Flush \/ Abandon
  \/ \E name \in DOMAIN packs : DropPack(name) \/ BeginRepack(name) \/ Damage(name)
  \/ \E c \in todo \cap Chunk : CopyBlob(c)
  \/ EndRepack
  \/ BeginRebuild
  \/ \E name \in todo \cap DOMAIN packs : OpenPack(name)
  \/ ScanEntry \/ PackScanned \/ EndRebuild

Spec == Init /\ [][Next]_vars

-----------------------------------------------------------------------------
(* Properties. *)

Cell ==
  {Magic, Rot} \cup ({"id"} \X Chunk) \cup ({"len"} \X Nat)
    \cup ({"blob"} \X Chunk \X Nat \X Nat)

Entries == [chunk : Chunk, offset : Nat, length : Nat]

PackTypeOK ==
  /\ \A n \in DOMAIN packs : packs[n] \in [file : Seq(Cell), hashed : {n}, entries : SUBSET Entries, torn : BOOLEAN]
  /\ \A c \in Chunk : Indexed(c) => index[c].pack \in DOMAIN packs /\ index[c].entry \in Entries
  /\ writer \in [file : Seq(Cell), hashed : Seq(Cell), entries : SUBSET Entries, torn : BOOLEAN]
  /\ mode \in {"store", "repack", "rebuild"}
  /\ source \in DOMAIN packs \cup {NoName}
  /\ mode = "repack" => todo \subseteq ChunksIn(source)
  /\ mode = "rebuild" => todo \subseteq DOMAIN packs
  /\ mode = "rebuild" /\ source # NoName => pos \in 1..Len(packs[source].file)

(* What lies at the entry is a sealed blob of the chunk, except for the    *)
(* cells that the medium lost.                                             *)
Holds(file, e, blob) ==
  /\ e.length = Len(blob)
  /\ \A i \in 1..Len(blob) :
       e.offset + i > Len(file) \/ file[e.offset + i] \in {blob[i], Rot}

(* The index locates every chunk exactly: behind half-written blobs,       *)
(* after repacks and rebuilds, and whatever other cells of the pack were   *)
(* damaged (cas/packfile.py PackEntry: exactly the range a reader passes   *)
(* to get_range).  A rebuild must not have met a pack that a write error   *)
(* or the medium spoiled.                                                  *)
IndexLocates ==
  trusted => \A c \in Chunk : Indexed(c) =>
               \E n \in 0..seals : Holds(packs[index[c].pack].file, index[c].entry,
                                        SealedBlob(c, n))

(* A clean pack describes itself: the scan stops at the boundaries of its  *)
(* entries and nowhere else (cas/packfile.py, point 1).                    *)
ScanFaithful ==
  mode = "rebuild" /\ source # NoName /\ Clean(source) =>
    LET entries == packs[source].entries IN
    /\ found = {e \in entries : e.offset + e.length <= pos}
    /\ pos = 1 \/ \E e \in entries : pos = e.offset + e.length

(* A rebuild over clean packs never raises, and finds every chunk that was *)
(* ever added to one of them.                                              *)
Recovers ==
  mode = "rebuild" /\ mode' = "store" /\ (\A n \in DOMAIN packs : Clean(n)) =>
    /\ source = NoName /\ todo = {}
    /\ \A n \in DOMAIN packs : \A e \in packs[n].entries : Indexed(e.chunk)

RebuildRecovers == [][Recovers]_vars
=============================================================================
