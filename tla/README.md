# Verification of casbackup

TLA+ models of casbackup, a deduplicating and encrypting backup tool, with the
TLC configurations that check them on small instances and TLAPS proofs of the
theorems that matter most. The reference is the code under
`src/src/casbackup/` (called `casbackup/` below); where a comment of the code and
the code disagree, the model follows the code, and the disagreement is a run
that TLC is expected to refute or is listed in section 4.

## 1. The system

Everything a backup stores is a *chunk*, named by the hash of its plaintext.
Chunks are sealed (compressed, encrypted under a fresh nonce) and collected in
immutable *packs*; an LMDB *index* maps each chunk id to one pack. A directory
is a tree node, itself stored as a chunk. A *snapshot record* names a root node.
There is no journal: crash safety is meant to follow from the order of writes.

| Component | State | Operations | Interacts with |
|---|---|---|---|
| Chunk index (`cas/index.py`) | chunk id -> pack, offset, length | has, get, add_pack, remove, clear, iter_all, rebuild; each an atomic transaction | object store, GC, check |
| Packs (`cas/packfile.py`) | pack blobs; a staging file | add, finalize, read_blob, iter_entries | object store, GC, rebuild |
| Object store (`cas/objectstore.py`) | open writer, pending table | put, flush, get, has, close | index, packs, scanner, readers |
| Garbage collector (`cas/gc.py`) | local to one call | collect | index, packs |
| Repository lock (`cas/lock.py`) | one blob `locks/repo.lock` | acquire, refresh, release | backup, prune, rebuild |
| Local backend (`cas/backend/local.py`) | files and directories | put_bytes, put_file, get, list, delete | everything durable |
| Chunker (`cas/chunker.py`) | a buffer per stream | chunk_stream | scanner |
| Scanner, tree nodes (`backup/scanner.py`, `manifest.py`) | local to one scan | scan_directory, store and load nodes | object store |
| Snapshots (`backup/snapshot.py`) | records in the backend | create, list, load, delete, mark | scanner, GC, readers |
| Restore, check (`backup/restore.py`, `verify.py`) | local to one call | restore_tree, check; no lock | index, packs, records |
| Sessions (`repo.py`) | key, index, store | backup, forget, prune, rebuild_index, restore, check, close | all of the above |
| Format and init (`cas/formatver.py`) | config and key blobs | init, open | backend |
| Codecs (`compress.py`, `crypto.py`, `hasher.py`), `metadata.py`, `config.py`, `cli/` | none that outlives a call | | |

What is hard here:

* **Crashes between two writes.** Backup, flush, prune and rebuild each have
  several durable steps, and the next operation starts from what is left.
* **A swallowed or raised error in the middle.** Session state (the writer,
  the pending table) outlives an exception; the scanner catches every `OSError`.
* **No lock where one might expect one.** forget, restore and check take none.
  A read of a chunk is two steps: index, then pack.
* **A lock without compare-and-swap**, on a blob store.
* **Dedup trusts the index.** A wrong entry is not only a failed read: it
  poisons later backups.
* **Errors that are recorded and passed over.** Scan and restore go on after an
  exception, in the middle of a tree, with part of a file written or stored.
* **Packs describe themselves** only if offsets, headers and the hash agree byte
  for byte, also after a write that failed half way.
* **init writes two blobs**, and only the first one is guarded.

Correctness, component by component: records only of durable chunks, at every
instant; sweeps never lose what a snapshot reaches; what is dead is reclaimed;
a rebuild restores the index from packs alone; at most one writer; readers are
disturbed by nothing but sweeps; a clean check report is true; blobs are never
torn; a repository that holds data keeps its key; every entry is found where the
index says; a scan's tree and its skip list together are the directory; a
restore is complete up to its report, and damages nothing; cuts depend on content
alone. `PROJECT.json` lists the hazards at their
lines, with the properties that watch them.

## 2. Modules

```
Storage ── ObjectStore ─┐                        SnapshotVault (abstract)
   └────── GC ──────────┴─ Repository ─ RepositoryInv ─ RepositoryVault ─ RepositoryHistory
                              └─ Reader ─┬─ Restore ─┬─ Readers
                                         └─ Check ───┘
TreeNodes ─ ScanTree ─┬─ RestoreTree ─┬─ Trees   PackFile     BlobStore (abstract)
                      └─ TreeWalk ────┘          LocalBackend ─┬─ BackendStore
Lock          Chunker                                          └─ RepoInit

model checking: MCRepository, MCRepositoryHistory, MCReaders, MCTrees, MCPackFile,
                MCLocalBackend, MCRepoInit, MCLock, MCChunker
proofs: RepositoryProofs, VaultProofs, ReaderProofs, TreeProofs, PackProofs,
        InitProofs, LockProofs, ChunkerProofs
```

The same code is modelled at two grains where one model of everything would be
out of reach. Repository has the order of effects on packs, index and records,
with packs as sets and flat directories; PackFile has what is inside a pack,
ScanTree and RestoreTree what is inside a tree, and RepoInit what happens before
the first session, on the system calls of LocalBackend.

**Storage** is the durable half: `packs`, a set of packs, and `index`, a
function from chunks to packs with `NoPack` for "no entry". A chunk is its own
name (the hash is injective). A sealed blob is a chunk with a nonce, a pack the
set of its blobs: packs named by their hash coincide exactly if they hold the
same bytes, which happens when a repack is repeated after a crash. `Located`,
`Dangling` and `Findable` say what a reader, a rebuild or a prune can get back.

**ObjectStore** is one session's write path: `writer` (open PackWriter),
`pending` (read-your-writes table), and a flush in two durable steps,
`PublishPack` and `IndexPack`; `staged` is the pack in between. A put flushes
when the writer holds `PackSize` chunks. `FinalizeFails` is an error before
publication, or after it when the temporary copy is unlinked (`packfile.py:234`): the
writer is gone, pending is not cleared, and a pack that is published is not indexed.

**GC** is `collect()`. `Classify` freezes the partition the code builds from its
cursor (`seen`); each dirty pack is then swept by `SweepDead`, `SweepDefer` or the
repack triple `RepackWrite`, `RepackIndex`, `RepackDrop`; `RemoveDead` is step 4
plus the listing of orphan packs, which `AdoptOrphan` and `DeleteOrphan` work off.
`PackMissing` is the `BlobNotFound` of `size()` or `read_blob()`.

**Repository** composes them: one writer runs backup (`ScanFile`, `StoreRoot`,
`FinalFlush`, `WriteSnapshot`), prune (`BeginPrune`, `LoadSnapshots`,
`MarkSnapshot`, `BeginCollect`, `CollectStep`) or rebuild, while `Forget` removes
records at any moment. `Raise` is an exception leaving an operation. `Faults`
selects what may go wrong:

| Fault | Meaning |
|---|---|
| `"stop"` | an operation ends early (death or exception) outside the next two windows |
| `"sweep"` | also between the deletion of a dead pack and the removal of its entries |
| `"rebuild"` | also while the index is being rebuilt |
| `"reuse"` | the caller goes on with a session after an exception (the CLI does not) |
| `"staging"` | preparing a pack, or unlinking its temporary copy, raises `OSError` during a scan, and the scanner takes it for an unreadable file |

**RepositoryInv** holds the inductive invariants, **SnapshotVault** the abstract
promise (a backup puts exactly the directory into the vault in one step or
leaves no trace; only forget removes), **RepositoryVault** the refinement mapping.
**RepositoryHistory** adds one history variable, `whole`: no rebuild runs or was
interrupted. A rebuild empties the index first, so only then can the code's
contract, `SnapshotsRestorable`, be asked for.

**PackFile** is the layout of packs. A byte string is a sequence of cells: the
magic, the two fields of an entry header, the cells of sealed blobs, `Rot`. A
digest is the string that was hashed, so the name of a pack is what its writer
has hashed (`hashed`), which is not what is in its file (`file`) once a write has
failed half way (`HalfAdded`: the cells stay, the hash has seen the header only,
the offset of the next blob comes from `tell()`). `Put`, `PutFails`, `Flush` and
`Abandon` are a session; `BeginRepack`, `CopyBlob` and `EndRepack` copy ranges;
`BeginRebuild`, `OpenPack`, `ScanEntry`, `PackScanned` and `EndRebuild` are
`ChunkIndex.rebuild` over `iter_entries`, entry by entry. `Damage` rots a cell or cuts
a tail. A cell that is no header reads as any length: what a scan of rotted bytes
does is nondeterministic. The history fields say what was really added.

**TreeNodes** has nodes: the id of a node stands for the set of its entries. A path
is followed name by name (`NodesAt`, `EntriesAt`), as a restore does.
**ScanTree** is the recursion of `scanner.py` as a stack of directories, one action
for each way a name can go, and for each call that may raise: `ScanFails` and
`StoreNodeFails` are the `OSError`s that the loop records, `PutRaises` the `BackendError`
that leaves the scan from any depth. **RestoreTree** is
`restore_tree` and `restore_single` as a stack of nodes over a small file system
(`disk`): types, modes, data, and whether an entry still has its recorded times
(`fresh` is set when something is created in a directory). A directory of mode
`closed` cannot be entered, so its metadata must come last. An exception inside the `try`
of the loop fails one entry (`FailEntry`); the test for an existing entry is in front of
it (`restore.py:124`), and where it raises, the whole node is given up (`StatRaises`,
`FailNode`). Below a closed directory it may raise or answer no: Python releases differ. A
restore begins after the store has lost up to `MaxLost` chunks. **TreeWalk** is `walk_tree` after the store has
lost any of its chunks (`intact` is what is left), as a stack of nodes (`trail`):
`YieldEntry` yields an entry (`listed`) and loads the node below it, and a node that is
lost ends the walk with an exception. `Marked` is what the mark phase makes of what was
yielded (`collect_reachable_ids`), `CheckClean` what check does. `Tree` is the same tree
as a restore finds it, by path.
**Trees** is a scan, then one restore or one walk: both only read, and each has a loss
of its own.

**Reader** adds a lockless reader to Repository: `Locate` is `index.get`, `Fetched`
or `Missing` the read of the pack afterwards. Two history variables say what the
properties need: `during` what has overlapped the reader, `sound` whether the
repository was undamaged when it began. **Restore** and **Check** are its two
clients, step by step, and **Readers** runs one of them at a time beside the
writer: readers share no state and write nothing, so several of them add no
behaviour that one does not have.

**Lock** is `cas/lock.py` for any number of processes and hosts: `ReadLock`,
`Decide`, `WriteLock`, `Verify`, `ReleaseRead`, `ReleaseDelete`, with deaths,
exceptions, reused pids, forced acquires and a damaged blob. A process is one
incarnation and stands for its token, pid and host. The history variable `plain`
is true as long as acquires have not overlapped and nobody forced or damaged the
lock: the code promises exclusion only then (`lock.py`, "honest limitation").

**LocalBackend** models puts and deletes on a file system at POSIX's weakest:
file content is safe after fsync of the file, changes of a directory after fsync
of the directory. `maybe` holds, for each name, every file a power loss may leave, and
`sure` the directories that are in their parents after any. The root is one of those that
may not be: nothing fsyncs its parent (`local.py:85`).
**BlobStore** is what `base.py` promises, without files: a call takes effect at one
instant or not at all, one that returns has settled its blob, and a crash leaves of
any other blob what it was or what some call made it. A blob whose directory a crash can
take away (not `firm`) may be gone. **BackendStore** has the refinement mapping: a put
takes effect at the rename, and the fsync of a directory settles all names in it. That
a put is one durable step is what Repository takes for granted of the backend.

**RepoInit** extends it with processes that run `init_repository` or open a session,
store data and close. Each put is the system calls of LocalBackend, so a failure,
a death or a power loss falls between any two of them. The key blob is the key it
wraps. The history variables `confirmed` (keys whose init has returned), `overlapped` (an
init began while another was under way) and `exposed` (the power failed while the key
blob was not safe, `KeyAtRisk`) say where the code promises less.

**Chunker** is `_find_cut` and `chunk_stream` with read() returning blocks of any
size; hash width, gear table, masks and sizes are parameters.

A definition whose comment begins with "Mutant:" is not part of the model. It is
a plausible bug in the definition below it; with it in place of the original the
run named in `PROJECT.json` finds the property violated, which shows that the
property can fail.

## 3. Runs

Passing runs (states are distinct states found):

| Run | Checks | States |
|---|---|---|
| `repository` | `CleanInv` (with `TypeOK`), `SnapshotsFindable`, `SnapshotsRestorable`, `SnapshotAfterChunks`, `PruneReclaims`, refinement `VaultSpec`, `OperationEnds`, with `"stop"` and `"rebuild"` | 950 000 |
| `repository_all_faults` | `SafeInv`, `NoReferencedChunkLost`, `DanglingOnlyFromSweep`, `RebuildHeals` with every fault | 3 400 000 |
| `readers` | `ReadersTypeOK`, `RestoreUndisturbed`, `NoFalseAlarm`, `CleanReportIsTrue`, with all faults but `"reuse"` | 4 800 000 |
| `packs` | `PackTypeOK`, `IndexLocates`, `ScanFaithful`, `RebuildRecovers` | 320 000 |
| `trees` | `TreesTypeOK`, `ScanBottomUp`, `ScanHonest`, `RestoreReports`, `DamageContained`, `NoPartialFile`, `ExistingKept`, `WalkListsTree`, `MarkExact`, `CheckFindsDamage` | 280 000 |
| `lock` | `MutualExclusion`, `SecureHolderStaysAlone`, `DeadHolderYields` | 26 000 |
| `backend_power_loss` | `AcknowledgedSurvives`, refinement `StoreContract` | 225 000 |
| `init` | `KeyNeedsConfig`, `DataReadable` | 1 800 000 |
| `chunker` | `ChunkerTypeOK`, `Lossless`, `ContentDefined`, `StreamEnds` | 41 000 |

Runs that TLC refutes, each one a statement of the code's documentation:

| Run | Statement | What happens |
|---|---|---|
| `swept_entry_dedup` | every snapshot on disk is restorable at any instant (`snapshot.py:41`, `src/README.md`) | prune dies behind `gc.py:159`; the next backup dedups against the entries left behind |
| `staging_error` | no snapshot before its chunks are durable (`snapshot.py:39`) | `scanner.py:159` swallows an error of `finalize`; `pending` claims the lost chunks |
| `readers_during_prune` | lockless reads are consistent (`repo.py:49`) | the entry a check saw is gone at the second lookup: `AssertionError` at `verify.py:122` |

### Bounds

* **Contents and directories.** `Data` is `{a}` or `{a, b}`, sources are `{a}` and
  `{a, b}`: a shared chunk, a chunk of its own, two root nodes. That is enough
  for dedup hits within and across backups, mixed packs (one dead, one live
  chunk), and directories that lose a file.
* **`Nonce`** bounds how often one chunk can be stored: two nonces give two
  copies in different packs. A backup starts only if the nonces and ids suffice
  to finish it (`RoomFor`, the only guard that is a bound; the code has none).
* **`SnapId`**: one or two records at a time. Ids are used again after forget,
  so the number of backups is not bounded.
* **`PackSize = 2`**: packs fill in the middle of a scan and also stay half full.
  The repack threshold is 1/2, so that one dead chunk of two reaches it; a pack
  with one dead of three cannot arise, hence `SweepDefer` is reached through
  adopted and partly re-indexed packs only.
* **`MaxPacks`** (state constraint) bounds the packs that explored states hold.
* `repository_all_faults` has one content but also an empty directory as source
  (`MaybeEmpty`): a session used on after an exception then puts a dead file
  chunk and a live node into one pack, so that repacks happen under every fault.
  Two contents with every fault are beyond TLC; two contents with stops and
  interrupted rebuilds are in `repository`, and the theorems have no bound.
* **`Undisturbed`** (state constraint of `readers`) leaves out what follows once a
  sweep or rebuild has overlapped a reader; the properties say nothing of such
  readers, and `readers_during_prune` explores them.
* Symmetry is used for nonces and ids in the Repository runs without liveness,
  and for processes and values of the backend. Contents are not symmetric:
  `Directories` tells them apart.
* **Lock**: three processes on two hosts, one of them forcing. Three are what a
  stale lock, a late writer and a bystander need.
* **LocalBackend**: two processes, one blob in the root and one in a directory,
  two values: replacement of a blob by another process while a call is under way. No
  directory is on disk at first; the one below the root is once the root has been
  synced, and the root only after a power loss that left it.
* **RepoInit**: two processes, each of which may be an init or a session again
  and again, and three keys: two inits that fail and one that succeeds, or one
  that succeeds between two others. The path is a new one: neither the repository
  directory nor `keys/` nor `packs/` is on disk at first, so a power loss may take any of
  them and leave the rest.
* **PackFile**: an incompressible chunk and two that compress to different sizes,
  three seals, packs of up to eight cells (two or three entries), one damage. The
  three seals suffice for a torn pack with an entry behind the tear, for a repack
  of what was repacked, and for a chunk that a rebuild lost and that is stored
  again. A job reads every cell once, so damage strikes between jobs.
* **Trees**: two directories. One has a directory that may not be entered inside
  another one, a link, a special file and a file of two chunks; the other has two
  equal subdirectories, hence one node reached twice, an empty file, an excluded
  path and chunks in different orders. Two calls raise during the scan, one more
  during the restore, one chunk is lost. Eight file systems to restore into: empty,
  a file or link as the target, a target or a directory above it that may not be
  entered, and a target with links, files and directories in the way. Six paths: the whole tree, a file, a link, and directories at each depth.
  A walk follows the same scans; any subset of the chunks is lost.
* **Chunker**: streams of up to ten bytes over two values, sizes 1, 3 and 5, a hash
  of two bits. Cuts by the hard mask, by the easy mask and by force, and a last
  chunk below the minimum all occur, and a chunk can need three reads.

`CHECK_DEADLOCK FALSE` is set for Lock, where every process may be dead, and for
Chunker, whose generator returns.

### Fairness

`repository` assumes `WF_vars(Operate)`: the program is synchronous and
single-threaded, so an operation that can take a step takes one unless it is
stopped. No fairness is assumed of starting operations, of forget or of faults.
`lock` assumes of each live process that it keeps trying to acquire and
releases what it holds (weak fairness), and that not every attempt is cut short
by an exception between two steps (strong fairness of `Decide` and `WriteLock`,
which a failing acquire disables again and again). That is what a cron job
does, and the property asks it only of the host of the dead holder.
`chunker` assumes that read() returns and that the consumer asks on. PackFile,
Trees, LocalBackend and RepoInit are safety only; Trees is checked for deadlock, so
every scan, restore and walk can go on until it is over.

## 4. Where the code does not keep its comments

Apart from the three refuted runs, the models contain, or reading the code for
them showed:

* `objectstore.py:32` says that the index never references data that is not durable.
  The first put into a new directory can be lost with it by a power loss: its parent is
  not fsynced (`local.py:117`), nor is that of the repository directory (`local.py:85`).
  `AcknowledgedSurvives` and `StoreContract` promise nothing to a blob whose directories
  are not on disk when its call returns.
* For the same reason step 4 of `local.py:18` does not make "the rename itself" durable
  for the key. init puts the config, which syncs the root, and then the key, which makes
  `keys/` and syncs only that. The root is not synced again by any put. After init has
  returned and backups were made, a power loss may keep `packs/` and lose `keys/`, and
  nothing stored can be decrypted any more. `DataReadable` says what is left to rely on:
  that no other key takes the place of the lost one, since the config is there.
* `index.py:116` says that GC reclaims the unreferenced one of two copies of a
  chunk. GC adopts every orphan pack with a live chunk (`gc.py:208`), which makes
  the pack it replaces the next orphan: two prunes alternate, and the space is never
  reclaimed. Nothing live is lost on the way (`NoReferencedChunkLost`).
* `gc.py:72` says that the next prune heals the entries an interrupted sweep
  leaves. It raises `BlobNotFound` at `gc.py:158` (`PackMissing`), and so does
  every prune until the index is rebuilt.
* `packfile.py` (point 1) says that a linear scan of every pack rebuilds the index. A
  pack with a write that stopped half way (`packfile.py:166`) is published with the
  half blob in it. Its entries are located right (`IndexLocates`), but iter_entries
  loses its way behind the tear: a rebuild, which has cleared the index by then,
  raises `PackFormatError` or indexes what is not there, and so does the adoption of
  such an orphan. This is why `IndexLocates` asks that rebuilds have met clean packs.
* If every put into a pack failed half way, the flush before the snapshot raises
  `RuntimeError` (`packfile.py:209`), though nothing needs to be written.
* The scanner says that it skips what it cannot read (`scanner.py:39`). A file name
  that is not valid UTF-8 ends the backup with `UnicodeEncodeError`
  (`manifest.py:113`), which is no `OSError`.
* When the node of a subdirectory cannot be stored, its directory is skipped but
  the files below it stay in the counts of the report (`scanner.py:150`).
* `restore.py` never turns "partial data loss into total data loss": a nested
  node that raises `ManifestError` does, since `restore.py:144` does not record it.
* After a failure, "restore continues with remaining files" (`restore.py:27`). Without
  `--force` the test for an existing entry (`restore.py:124`) is outside the `try`. Where
  `exists()` raises, as it does on Python 3.11 to 3.13 below a directory that may not be
  searched, the rest of that node is given up and its directory fails, or the whole
  restore if it is the target.
* `restore_single` of a link with `--force` fails if the target exists
  (`restore.py:192`); `restore_tree` replaces it. `RestoreLink` has both.
* An init that dies between config and key leaves a path that can be neither
  opened nor initialized (`repo.py:119`, `formatver.py:94`). Two inits at once can
  both pass `formatver.py:93`; the later key replaces the earlier one, and what was
  stored under that is lost, although init "refuses to reuse an initialized one"
  (`repo.py:84`). `DataReadable` speaks of inits that do not overlap only.
* A session may open on a key whose put has not returned (`repo.py:117`). A power loss can
  take that key back and keep what was stored under it; `exposed` covers this too.
* The race of `readers_during_prune` also makes a restore fail: a live chunk's
  pack is repacked and deleted between `objectstore.py:154` and `:159`.
* `release()` reads the lock and deletes it by name (`lock.py:178`-`180`): a lock
  that a forced acquire wrote in between goes with it, although the comment
  says that only the own lock is removed.
* A live pid on the same host "genuinely" holds the lock (`lock.py:25`), also when
  the pid has been given to another process; `PidFreed` ends that.
* `MASK_HARD` and `MASK_EASY` have 16 and 9 one-bits, not the 18 and 14 of
  `chunker.py:115`: past the average size a cut is expected within 512 bytes,
  not 16 KiB.
* Temporary files that put or finalize leave behind when the process dies
  (`.tmp-*` in the repository) are never removed; `local.py` `delete` lets an
  `OSError` of its directory fsync through untranslated; `dead_fraction`
  (`gc.py:164`) counts indexed chunks only, not the bytes of blobs whose entries
  were overwritten.

## 5. Proofs

All proofs hold for arbitrary constants that satisfy the modules' named
assumptions (`PackSizeAssumption`, `ThresholdAssumption`, `SourcesAssumption`,
`LockAssumption`, `BackendAssumption`, `InitAssumption`, `SizesAssumption`,
`ScanAssumption`, `RestoreAssumption`, `ChunkerAssumption`). What only TLC
checks is at the end of this section.

**RepositoryProofs** has the lemmas on the operators of Storage and proves `TypeCorrect` and then `SafeCorrect`,
`Spec => []SafeInv`. None of the action properties is inductive by itself. The
invariant says what a sweep relies on: an index entry names a pack that holds its
chunk (`IndexSound`); every record is still to be marked or already within `live`
(`MarkSound`, which survives forget since that only removes records, and
survives backups since the lock keeps them out of a prune); what classify saw
stays true of every pack still to be swept, apart from live chunks that a repack
moved to a pack classify never saw (`SweepSound`); a repack in progress has a
complete copy (`RepackSound`). With it follow

* `ReferencedChunksKept` (`NoReferencedChunkLost`): the only deletions are of a
  pack with no live indexed chunk, of a pack whose live chunks were moved, and of
  an orphan with no live chunk, and everything referenced is live by then;
* `DanglingConfined` (`DanglingOnlyFromSweep`);
* `PruneReclaimsDead` and `RebuildRestoresIndex`.

All of these hold under *every* fault, interrupted sweeps included.

**VaultProofs** assumes `CleanFaults` (no `"sweep"`, `"reuse"`, `"staging"`) and
strengthens `SafeInv` to `CleanInv`: nothing dangles but what a running sweep has
doomed, the pending table is exactly what is staged, and a backup lists only
what is stored. It yields `SnapshotsStayFindable`, `SnapshotsComeLast` and
`ImplementsVault`, the refinement of SnapshotVault. The assumption is needed: the
two refuted runs on snapshots, `swept_entry_dedup` and `staging_error`, drop one part
of it each.

It also carries `CleanInv` over to RepositoryHistory (`CleanHolds`) and
proves `SnapshotsStayRestorable`. `CleanInv` says that every chunk reached is findable,
and what is findable and indexed is located. While `whole`, a step takes the entry of
a reached chunk away only if it begins a rebuild, and a rebuild that ends has indexed
every pack.

**LockProofs** proves the type invariant, `SerialExclusion` (`MutualExclusion`: no
second holder while `plain`) and `SecureHolders` (any overlap, until somebody
forces or damages the lock), for any number of processes and hosts and all
faults. The inductive invariant adds to the types that a pid is gone only if
its process is dead, and, while `plain`, that the blob names whoever holds or has
just written and that a contender has seen the holder's payload.

**InitProofs** first proves, of LocalBackend, the type invariant, `BlobsIntact` (`NoTornBlob`) and
`AcknowledgedKept` for any number of processes, names, values and directories. The
invariant relates each call to the file system: the temporary file behind a rename
is whole and synced, and every file that a power loss may leave under a name is
one that some call wrote completely. For `AcknowledgedKept` it adds that what may
be left is always allowed: the last acknowledged content, one of a call that has
not returned, or none where the directory may be lost (`Promised`). It needs no
assumption on the directories: `allowed` says what was promised, which depends on where
the directory was when the call returned.

`ImplementsStore` (`StoreContract`) is the refinement of BlobStore, step by step: a put
begins, has its effect at the rename, returns at the fsync of the directory; the steps
in between stutter; and a power loss is a crash of the abstract store, because a file
that may be left under a name is synced and whole. `SessionsUseStore` carries it over
to RepoInit, each of whose steps is one of the backend or leaves the files alone.

Of RepoInit it proves two things. `KeyComesLast` (`KeyNeedsConfig`): a key is put only after
the put of the config has returned, so every file a power loss can leave under the
name of the config is the config by then. `DataStaysReadable` (`DataReadable`) needs no
assumption on the directories either. Its invariant is `Serial`: while no inits have
overlapped, an init is alone, and until its key is visible there are no sessions and
no data (`OneInit`); then the key of every session is the one that the key blob shows, and
a power loss leaves that one or none (`OneKey`). What is stored, or may be left of it,
has that key, or the key is gone, the power failed while it was at risk, and the config is
there after any power loss, so that no init passes its test (`Sealed`). That a key
which was never at risk stays follows from `confirmed` and `sure`.

**PackProofs** proves all that `packs` checks, for any chunks and sizes and any number of
seals and damages. `LayoutInv`: what a writer hashed without a failure is tiled by its
entries, each behind a header that describes it, each header at the end of the blob
before it or of the magic. So a scan that starts at a boundary finds one length and one
id there and hops to the next boundary: `ScanIsFaithful`, and with it
`RebuildIsComplete` (`RebuildRecovers`). `IndexIsExact` (`IndexLocates`) needs more, since
a pack is published under what was hashed, not under what is in the file: no pack may
be replaced by another one with other bytes. `LocateInv` gives the two reasons. A pack of
a session holds a seal that no other pack has (`WriterFresh`). A repack may make a
string that is there already, but never one that a failed write left, since only that
has a header without a blob (`Broken`, `NamesTell`). The rest of it says what the
entries of the writer, of the packs and of the index hold, damage aside.

**ReaderProofs** proves all that `readers` checks, under every fault, on top of
`SafeInv`. While no sweep and no rebuild runs, packs are only added and an entry only
moves to a pack that is stored, so what is located stays located. `ReadersInv` keeps
that for each thing a reader holds between two steps: the pack it is about to read
(`at`), what is left of a restore, the references and the cursor of a check
(`RestoreSound`, `CheckSound`). `ReportSound` goes the other way, from a report without
a problem to the storage, and says for each phase of a check how far that has got.
`CleanReportsAreTrue` needs no undamaged repository to begin with.

**ChunkerProofs** proves the type invariant with the bound of the buffer, `Lossless` and
`ContentDefined`. The hash `fp` of `_find_cut` is a recursive function of the buffer. Its
closed form is a sum in which the byte `k` places back counts 2^k times, modulo 2^Width,
so bytes `Width` or more back have no part in it. The cut is then a property of the
stream from the offset on, and since a full window or the end of the stream is buffered
before a cut is sought, the blocks that read() returns do not matter. `OneCut` and
`CutsResynchronise` say what dedup takes from this: a stream has one way to be cut, and
behind a common cut two streams are cut alike as long as they agree.

**TreeProofs** proves what Trees says of single instants. `ScanInv`: what an open
directory has captured is in the store, and so is what was read of an open file; with
it `StoredNodesComplete` (`ScanBottomUp`). A node that a failing put leaves unstored is
never captured, and a put that ends the scan stores nothing. `ScanReportsTruth` (`ScanHonest`) speaks of a tree that is gone from the
stack when the scan is over. Its invariant keeps books for every directory ever entered,
which the program does not: the entries it has and the names that are left, `Honest` if
each entry shows what the directory holds and each name that is done has an entry or a
reason in the skip list. `BooksKept` says that such books exist and that the stack
follows them (`Tracks`); `SkipsCounted` counts the skips. When the scan ends all books are
closed, and `AllBooked`, by induction on the length of a path, finds them node by node in
the tree that the root leads to. `RestoreInv` relates the stack of a restore to the snapshot: an entry
that is being restored at a path is one that the snapshot holds there (`Sought`), the
temporary file holds a prefix of the recorded data, and no directory on the stack or
waiting for its metadata is one that has to stay as it was (`Kept`). With it
`FilesAppearWhole` (`NoPartialFile`) and `NothingOverwritten` (`ExistingKept`). Chunks are
lost before a restore, so the nodes it goes through are complete as they were stored,
though what they name may be gone (`Known`).

`NothingMissesSilently` (`RestoreReports`) compares the tree with what is on disk when a
restore returns. By the books a path below the root leads to one node and one entry
(`OneNode`, `OneEntry`), so whatever the stack holds for a path is what was asked for
there (`Asks`). `Todo` is what is still to be restored, and `Accounted` says of every
entry asked for that it is at or below something to do, at or below a reported path, in
place (a directory whose metadata is due), or finished. To take an entry off the list
is to report it, to finish it or to put what its directory holds on the list instead
(`WantedBelow`). What is done stays done because an operation changes nothing but its own
path and the times of its parent (`Alters`), and a parent is a directory with its metadata
still due.

`DamageStaysWhereItIs` (`DamageContained`) asks why an entry fails. Nothing that is still
to be restored is at or below anything else that is (`Apart`), and nothing was made at or
below it, nor a directory closed above or below it (`Untried`). So what is in its way
was there before the restore. Directories get their metadata deepest first, hence
none is closed while one below it is due (`Reachable`). An entry that fails is therefore
`Damaged` (something is in its way or a chunk on the way to it is lost), or a call raised for
it, and then it is the one that `errors` counts: `Excess`, the entries that
failed without damage, never outnumbers them. Where a stat raises, the directory takes
the place of all that is left in it, for the same reason. The proof attempt found the first form
of the property false where the target or the directory around it may not be entered;
these are in the way too (`InTheWay`), and two of the file systems of `trees` have them.

Of walks it proves the last three properties of `trees`, for any tree and any lost chunks. The
tree that is walked is what the books of the scan say (`OneEntry`): a path leads to one
entry. `WalkSound` has three parts. Each node on the trail is the node at its path, with
some of its entries left (`TrailFits`). Each entry of the tree has been yielded, or is
at or below one that is left on the trail (`Walked`), and nothing was yielded that is not
in the tree; when the trail is empty, that is `WalksListTrees` (`WalkListsTree`). Each
node named by what was yielded was there when it was loaded, except the one that raised
(`Loaded`). `MarksAreExact` (`MarkExact`) follows at once: the chunks named by the walk are
those named by the paths, and a walk that raises marks nothing, since it ends the prune.
`ChecksFindDamage` (`CheckFindsDamage`) needs `Loaded`: check never looks a node below the
root up, it relies on the walk having read it.

Every invariant and every action property of the passing runs is stated by a theorem.
Three invariants are proved that no run lists: `LockTypeOK` and `BackendTypeOK`, which
only give types, and `NoTornBlob`, which is part of `StoreContract` (a blob there holds a
value or does not exist).
Only model-checked are the liveness properties `OperationEnds`, `DeadHolderYields` and
`StreamEnds`: temporal properties under fairness are outside the prover.

## 6. Assumptions and what is not modelled

* SHA-256 is injective and nonces do not repeat.
* Repository assumes that the lock excludes a second writer. Lock shows when
  that is so; the code documents the remaining race (`lock.py`, "honest
  limitation"). Two holders on the same packs and index, and close() of a session
  beside another process, are not modelled: with a second writer Repository is
  beyond TLC, and nothing is promised. No caller passes `force` or calls
  `refresh()` at present.
* The index commits durably with each transaction (LMDB's default).
* In Repository files have one chunk and directories are flat; in ScanTree and
  RestoreTree what a put has returned for is stored.
* A node that hashes to its id was written by store_tree_node: the validation in
  load_tree_node is never met. Links that lead to directories outside the target
  of a restore are left out.
* In PackFile the write that fails is the one of the blob, not of its header or of
  the header of the pack.
* Not modelled: configuration and command line (parsing and output around one
  operation), ownership of files, cryptography and compression beyond what the
  component list says, counters and messages.

## 7. Plan

1. *(done)* Storage, ObjectStore, GC, Repository with the vault refinement; Lock;
   Restore, Check; LocalBackend; Chunker.
2. *(done)* RepositoryHistory, PackFile, ScanTree, RestoreTree, Trees, RepoInit, and
   the proofs of the history, the backend, init and packs.
3. *(done)* Proofs for the readers, the chunker, and all that `trees` checks; tree
   nodes without RECURSIVE operators.
4. *(done)* TreeWalk as a state machine, with its proofs; the blob store and its
   refinement by the backend, without assumptions on directories. Every safety property of the passing runs is proved.
5. Open: a second writer in Repository (two holders of the lock, close() beside another
   process), which is beyond TLC with the steps it has.
