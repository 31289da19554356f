----------------------------- MODULE RestoreTree -----------------------------
(***************************************************************************)
(* restore_tree and restore_single (backup/restore.py) of what ScanTree    *)
(* has stored, with FileMeta.apply (backup/metadata.py), into a file       *)
(* system where entries may exist already and after the store may have     *)
(* lost chunks.                                                            *)
(*                                                                         *)
(* The target is the name 0 in the directory <<>>, which restore_single    *)
(* creates when it is missing.  A directory of mode "closed" may neither   *)
(* be searched nor written: every call beneath it raises, and apply warns. *)
(***************************************************************************)
EXTENDS ScanTree

CONSTANTS
  Existing,           \* file systems to restore into
  Requests,           \* paths asked for; <<>> is the whole snapshot
  MaxLost,            \* bounds the number of chunks lost
  MaxRestoreFailures  \* bounds how many other calls raise during a restore

(* fresh: the modification time is that of the last change, not the        *)
(* recorded one.                                                           *)
Item(type, mode, data, fresh) ==
  [type |-> type, mode |-> mode, data |-> data, fresh |-> fresh]

ASSUME RestoreAssumption ==
  /\ MaxLost \in Nat /\ MaxRestoreFailures \in Nat
  /\ Requests \subseteq Seq(Nat)
  /\ \A fs \in Existing :
       /\ DOMAIN fs \subseteq Seq(Nat) /\ <<>> \in DOMAIN fs /\ fs[<<>>].type = "dir"
       /\ \A p \in DOMAIN fs : fs[p] = Item(fs[p].type, fs[p].mode, fs[p].data, fs[p].fresh)

VARIABLES
  restore,    \* "idle", "begun", "walk", "file", "dirs", "done" or "raised"
  base,       \* the path asked for
  force,      \* not refuse_overwrite
  before,     \* history: the file system before the restore
  disk,       \* the file system: from paths to items
  frames,     \* nodes being restored, the innermost last
  temp,       \* the data written to the open temporary file
  dirMeta,    \* directories whose metadata is still to be applied
  failed,     \* the report: paths that failed
  warned,     \* the report: paths whose metadata could not be applied
  errors      \* number of calls that raised

restoreVars ==
  <<restore, base, force, before, disk, frames, temp, dirMeta, failed, warned, errors>>

Target == <<0>>

RestoreInit ==
  /\ restore = "idle" /\ base = <<>> /\ force = FALSE
  /\ before = <<>> /\ disk = <<>>
  /\ frames = <<>> /\ temp = <<>> /\ dirMeta = {}
  /\ failed = {} /\ warned = {} /\ errors = 0

-----------------------------------------------------------------------------
(* The file system. *)

Exists(path) == path \in DOMAIN disk
IsDir(path)  == Exists(path) /\ disk[path].type = "dir"
Open(path)   == \A p \in DOMAIN disk : IsStrictPrefix(p, path) => disk[p].mode = "open"

Touched(path) ==
  [p \in DOMAIN disk |-> IF p = Front(path) THEN [disk[p] EXCEPT !.fresh = TRUE] ELSE disk[p]]

Made(path, item) ==
  [p \in DOMAIN disk \cup {path} |-> IF p = path THEN item ELSE Touched(path)[p]]

-----------------------------------------------------------------------------
(* Beginning: resolve the path, check the target. *)

Whole == base = <<>>

(* restore_single loads every node on the way to its entry. *)
Navigable ==
  /\ \A p \in Prefixes(base) \ {base} : NodesAt(root, p) \cap chunks # {}
  /\ Recorded(base) # {}

BeginRestore ==
  /\ scan = "done" /\ restore = "idle" /\ restore' = "begun"
  /\ base' \in Requests
  /\ force' \in BOOLEAN
  /\ \E fs \in Existing : disk' = fs /\ before' = fs
  /\ \E lost \in SUBSET chunks :
       Cardinality(lost) <= MaxLost /\ chunks' = chunks \ lost
  /\ UNCHANGED <<source, scan, stack, file, skipped, root, failures>>
  /\ UNCHANGED <<frames, temp, dirMeta, failed, warned, errors>>

(* A whole snapshot is restored like an entry for its root node. *)
Resolve ==
  /\ restore = "begun"
  /\ IF Whole \/ Navigable
     THEN /\ restore' = "walk"
          /\ \E e \in IF Whole THEN {DirEntry(0, "open", root)} ELSE Recorded(base) :
               frames' = <<[path |-> <<>>, todo |-> {[e EXCEPT !.name = 0]}]>>
     ELSE restore' = "raised" /\ UNCHANGED frames
  /\ UNCHANGED scanVars
  /\ UNCHANGED <<base, force, before, disk, temp, dirMeta, failed, warned, errors>>

-----------------------------------------------------------------------------
(* One entry of the innermost node.  Exceptions inside the try of its loop *)
(* are recorded, except at the target itself, where they leave the         *)
(* restore; the test for an existing entry is outside of it.               *)

Inner == Last(frames)
Member == CHOOSE e \in Inner.todo : \A f \in Inner.todo : e.name <= f.name
Dest  == Append(Inner.path, Member.name)

Dropped == Front(frames) \o <<[Inner EXCEPT !.todo = @ \ {Member}]>>

(* Mutant: the exception ends the loop over the whole node. *)
FailEntryAndSiblings ==
  IF Dest = Target
  THEN restore' = "raised" /\ UNCHANGED <<frames, failed>>
  ELSE /\ restore' = "walk"
       /\ failed' = failed \cup {Append(Inner.path, e.name) : e \in Inner.todo}
       /\ frames' = Front(frames) \o <<[Inner EXCEPT !.todo = {}]>>

FailEntry ==
  IF Dest = Target
  THEN restore' = "raised" /\ UNCHANGED <<frames, failed>>
  ELSE restore' = "walk" /\ frames' = Dropped /\ failed' = failed \cup {Dest}

(* Mutant: a dangling link does not exist. *)
RefusedIfResolved == ~force /\ Exists(Dest) /\ disk[Dest].type # "link" /\ ~(Whole /\ Dest = Target)

(* dest.exists() or dest.is_symlink(); the target directory of a whole     *)
(* restore may exist.                                                      *)
Refused == ~force /\ Exists(Dest) /\ ~(Whole /\ Dest = Target)

AtEntry == restore = "walk" /\ Inner.todo # {}
Restoring(type) == AtEntry /\ ~Refused /\ Member.type = type

Raising ==
  /\ errors < MaxRestoreFailures
  /\ errors' = errors + 1

(* The exception ends the loop over the node: the directory it restores    *)
(* fails, or the whole restore if that is the target.                      *)
FailNode ==
  IF Inner.path \in {<<>>, Target}
  THEN restore' = "raised" /\ UNCHANGED <<frames, failed>>
  ELSE /\ restore' = "walk"
       /\ failed' = failed \cup {Inner.path} /\ frames' = Front(frames)

(* dest.exists() raises: below a directory that may not be searched, where *)
(* the Python release does not answer FALSE instead, or for a reason of    *)
(* its own.                                                                *)
StatRaises ==
  /\ AtEntry /\ ~force /\ ~(Whole /\ Dest = Target)
  /\ (~Open(Dest) /\ UNCHANGED errors) \/ Raising
  /\ FailNode
  /\ UNCHANGED <<scanVars, base, force, before, disk, temp, dirMeta, warned>>

RefuseEntry ==
  /\ AtEntry /\ Refused /\ FailEntry
  /\ UNCHANGED <<scanVars, base, force, before, disk, temp, dirMeta, warned, errors>>

(* Inside the try, mkdir, mkstemp or symlink raises for a reason of its    *)
(* own.                                                                    *)
EntryRaises ==
  /\ AtEntry /\ ~Refused /\ Raising /\ FailEntry
  /\ UNCHANGED <<scanVars, base, force, before, disk, temp, dirMeta, warned>>

(* Mutant: the metadata is applied when the directory is made. *)
RestoreDirApplied ==
  /\ Restoring("dir")
  /\ IF Open(Dest) /\ (IsDir(Dest) \/ ~Exists(Dest))
     THEN /\ disk' = Made(Dest, Item("dir", Member.mode, <<>>, FALSE))
          /\ IF Subnode(Member) \in chunks
             THEN /\ frames' = Append(Dropped, [path |-> Dest, todo |-> Entries(Subnode(Member))])
                  /\ UNCHANGED <<restore, failed>>
             ELSE FailEntry
     ELSE FailEntry /\ UNCHANGED disk
  /\ UNCHANGED <<scanVars, base, force, before, temp, dirMeta, warned, errors>>

(* Mutant: the metadata is noted before mkdir. *)
RestoreDirNoted ==
  /\ Restoring("dir")
  /\ dirMeta' = dirMeta \cup {[path |-> Dest, mode |-> Member.mode]}
  /\ IF Open(Dest) /\ (IsDir(Dest) \/ ~Exists(Dest))
     THEN /\ disk' = IF IsDir(Dest) THEN disk
                     ELSE Made(Dest, Item("dir", "open", <<>>, TRUE))
          /\ IF Subnode(Member) \in chunks
             THEN /\ frames' = Append(Dropped, [path |-> Dest, todo |-> Entries(Subnode(Member))])
                  /\ UNCHANGED <<restore, failed>>
             ELSE FailEntry
     ELSE FailEntry /\ UNCHANGED disk
  /\ UNCHANGED <<scanVars, base, force, before, temp, warned, errors>>

(* The metadata is due even if the node below cannot be read. *)
RestoreDir ==
  /\ Restoring("dir")
  /\ IF Open(Dest) /\ (IsDir(Dest) \/ ~Exists(Dest))
     THEN /\ disk' = IF IsDir(Dest) THEN disk
                     ELSE Made(Dest, Item("dir", "open", <<>>, TRUE))
          /\ dirMeta' = IF Whole /\ Dest = Target THEN dirMeta
                        ELSE dirMeta \cup {[path |-> Dest, mode |-> Member.mode]}
          /\ IF Subnode(Member) \in chunks
             THEN /\ frames' = Append(Dropped, [path |-> Dest, todo |-> Entries(Subnode(Member))])
                  /\ UNCHANGED <<restore, failed>>
             ELSE FailEntry
     ELSE FailEntry /\ UNCHANGED <<disk, dirMeta>>
  /\ UNCHANGED <<scanVars, base, force, before, temp, warned, errors>>

(* A link that exists is replaced in a tree, but not as the target.        *)
RestoreLink ==
  /\ Restoring("link")
  /\ IF Open(Dest) /\ ~IsDir(Dest) /\ ~(Exists(Dest) /\ Dest = Target)
     THEN /\ disk' = Made(Dest, Item("link", "open", <<Member.content[1][2]>>, FALSE))
          /\ frames' = Dropped
          /\ UNCHANGED <<restore, failed>>
     ELSE FailEntry /\ UNCHANGED disk
  /\ UNCHANGED <<scanVars, base, force, before, temp, dirMeta, warned, errors>>

(* _write_file_streaming *)
OpenTemp ==
  /\ Restoring("file")
  /\ IF Open(Dest)
     THEN /\ restore' = "file" /\ temp' = <<>>
          /\ disk' = Touched(Dest)
          /\ UNCHANGED <<frames, failed>>
     ELSE FailEntry /\ UNCHANGED <<temp, disk>>
  /\ UNCHANGED <<scanVars, base, force, before, dirMeta, warned, errors>>

WriteChunk ==
  /\ restore = "file" /\ Len(temp) < Len(Member.content)
  /\ LET id == Member.content[Len(temp) + 1] IN
     IF id \in chunks
     THEN temp' = Append(temp, id[2]) /\ UNCHANGED <<restore, frames, failed>>
     ELSE FailEntry /\ UNCHANGED temp
  /\ UNCHANGED <<scanVars, base, force, before, disk, dirMeta, warned, errors>>

(* write, fsync or rename raises; the temporary file is unlinked. *)
FileRaises ==
  /\ restore = "file" /\ Raising /\ FailEntry
  /\ UNCHANGED <<scanVars, base, force, before, disk, temp, dirMeta, warned>>

(* Mutant: what was written so far is renamed before the chunks are all    *)
(* there.                                                                  *)
PublishFileEarly ==
  /\ restore = "file"
  /\ IF ~IsDir(Dest)
     THEN /\ disk' = Made(Dest, Item("file", Member.mode, temp, FALSE))
          /\ restore' = "walk" /\ frames' = Dropped
          /\ UNCHANGED failed
     ELSE FailEntry /\ UNCHANGED disk
  /\ UNCHANGED <<scanVars, base, force, before, temp, dirMeta, warned, errors>>

(* The hash of the whole file is compared, then it is renamed, which fails *)
(* for a directory in its place; its metadata follows at once.             *)
PublishFile ==
  /\ restore = "file" /\ Len(temp) = Len(Member.content)
  /\ IF temp = Member.hash /\ ~IsDir(Dest)
     THEN /\ disk' = Made(Dest, Item("file", Member.mode, temp, FALSE))
          /\ restore' = "walk" /\ frames' = Dropped
          /\ UNCHANGED failed
     ELSE FailEntry /\ UNCHANGED disk
  /\ UNCHANGED <<scanVars, base, force, before, temp, dirMeta, warned, errors>>

LeaveDir ==
  /\ restore = "walk" /\ Inner.todo = {}
  /\ frames' = Front(frames)
  /\ restore' = IF Len(frames) = 1 THEN "dirs" ELSE "walk"
  /\ UNCHANGED <<scanVars, base, force, before, disk, temp, dirMeta, failed, warned, errors>>

-----------------------------------------------------------------------------
(* The metadata of directories, when everything is in place. *)

(* The deepest first; apply raises nothing and warns instead. *)
ApplyDir ==
  /\ restore = "dirs"
  /\ \E d \in dirMeta :
       /\ \A o \in dirMeta : Len(o.path) <= Len(d.path)
       /\ dirMeta' = dirMeta \ {d}
       /\ IF Open(d.path)
          THEN /\ disk' = [disk EXCEPT ![d.path].mode = d.mode, ![d.path].fresh = FALSE]
               /\ UNCHANGED warned
          ELSE warned' = warned \cup {d.path} /\ UNCHANGED disk
  /\ UNCHANGED <<scanVars, restore, base, force, before, frames, temp, failed, errors>>

ReturnReport ==
  /\ restore = "dirs" /\ dirMeta = {}
  /\ restore' = "done"
  /\ UNCHANGED <<scanVars, base, force, before, disk, frames, temp, dirMeta, failed, warned, errors>>

RestoreStep ==
  \/ BeginRestore \/ Resolve
  \/ StatRaises \/ RefuseEntry \/ EntryRaises
  \/ RestoreDir \/ RestoreLink
  \/ OpenTemp \/ WriteChunk \/ FileRaises \/ PublishFile
  \/ LeaveDir \/ ApplyDir \/ ReturnReport
=============================================================================
