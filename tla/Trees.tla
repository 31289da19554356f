-------------------------------- MODULE Trees --------------------------------
(***************************************************************************)
(* A backup of a directory tree (scan_directory), then either a restore of *)
(* it, whole or in part (restore_tree or restore_single), or a walk of it  *)
(* (walk_tree, for list, check or gc).  Restores and walks only read, so   *)
(* that one at a time is enough.                                           *)
(***************************************************************************)
EXTENDS RestoreTree, TreeWalk

vars == <<scanVars, restoreVars, walkVars>>

Init == ScanInit /\ RestoreInit /\ WalkInit

Over ==
  /\ scan = "raised" \/ restore \in {"done", "raised"} \/ walk \in {"done", "raised"}
  /\ UNCHANGED vars

Next ==
  \/ ScanStep /\ UNCHANGED <<restoreVars, walkVars>>
  \/ RestoreStep /\ walk = "idle" /\ UNCHANGED walkVars
  \/ WalkStep /\ restore = "idle" /\ UNCHANGED restoreVars
  \/ Over

Spec == Init /\ [][Next]_vars

-----------------------------------------------------------------------------
(* Properties. *)

Paths == DOMAIN source

(* Type invariant: what is open fits the file or the node it belongs to,   *)
(* a pending directory exists, and a walk is in some node.                 *)
TreesTypeOK ==
  /\ scan \in {"list", "walk", "file", "done", "raised"}
  /\ \A i \in DOMAIN stack :
       /\ stack[i].path \in Paths /\ stack[i].todo \subseteq Listing(stack[i].path)
       /\ {e.name : e \in stack[i].entries} \subseteq Listing(stack[i].path) \ stack[i].todo
  /\ scan = "file" => IsPrefix(file, source[Here].data)
  /\ \A s \in skipped : s[1] \in Paths
  /\ failures \in 0..MaxScanFailures
  /\ restore \in {"idle", "begun", "walk", "file", "dirs", "done", "raised"}
  /\ restore # "idle" => scan = "done"
  /\ restore = "file" => IsPrefix(temp, Member.hash)
  /\ \A d \in dirMeta : IsDir(d.path)
  /\ errors \in 0..MaxRestoreFailures
  /\ walk \in {"idle", "begun", "walk", "done", "raised"}
  /\ walk # "idle" => scan = "done" /\ restore = "idle"
  /\ walk = "walk" => trail # <<>>
  /\ intact \subseteq chunks

(* Until the store loses something, it holds no node without what the node *)
(* names, wherever the scan stopped.                                       *)
ScanBottomUp == restore = "idle" => NodesComplete(chunks)

(* What was asked for, by the path it has in the target. *)
Wanted ==
  UNION {{<<Target \o SubSeq(p, Len(base) + 1, Len(p)), e>> : e \in Recorded(p)} :
           p \in {q \in Paths \ {<<>>} : IsPrefix(base, q)}}

Restored(path, e) ==
  /\ Exists(path)
  /\ disk[path].type = e.type
  /\ e.type = "file" => disk[path].data = e.hash
  /\ e.type = "link" => disk[path].data = <<e.content[1][2]>>

Attributed(path, e) == disk[path].mode = e.mode /\ ~disk[path].fresh

Below(path, ancestors) == \E a \in ancestors : IsPrefix(a, path)

(* Nothing is missing in silence (restore.py: "continues with remaining    *)
(* files and reports"): after a restore that returns, every entry asked    *)
(* for is there as it was recorded, with its mode and its times, unless    *)
(* the report names it or a directory above it.                            *)
RestoreReports ==
  restore = "done" =>
    \A w \in Wanted :
      \/ Below(w[1], failed)
      \/ /\ Restored(w[1], w[2])
         /\ Attributed(w[1], w[2]) \/ w[1] \in warned

(* One bad chunk costs what needs it and nothing else (restore.py: never   *)
(* "converts partial data loss into total data loss"): an exception leaves *)
(* a restore, and an entry fails in its report, only if something is in    *)
(* the way, a chunk of its own (or on the way to it) is lost, or a call    *)
(* raised; and with nothing in the way every directory gets its metadata,  *)
(* those that may not be entered included.  The directories that a restore *)
(* may find there are in the way if they may not be entered.               *)
InTheWay == {p \in DOMAIN before : p \notin {<<>>, Target} \/ before[p].mode # "open"}

Lacking == {w[1] : w \in {v \in Wanted : ~(Needs(v[2]) \subseteq chunks)}}

DamageContained ==
  /\ restore = "done" =>
       /\ Cardinality({d \in failed \ Lacking : ~Below(d, InTheWay)}) <= errors
       /\ warned # {} => InTheWay # {}
  /\ restore = "raised" =>
       \/ errors > 0 \/ Target \in DOMAIN before \/ <<>> \in InTheWay \/ Target \in Lacking
       \/ IF Whole THEN root \notin chunks ELSE ~Navigable

(* No file appears under its name before it is complete and verified       *)
(* ("write-side safety"): at every instant a file is what it was before    *)
(* the restore or what was recorded.                                       *)
NoPartialFile ==
  \A p \in DOMAIN disk : disk[p].type = "file" =>
    \/ p \in DOMAIN before /\ disk[p] = before[p]
    \/ /\ IsPrefix(Target, p)
       /\ \E e \in Recorded(base \o Tail(p)) : Restored(p, e) /\ e.mode = disk[p].mode

(* Without --force nothing that existed changes ("refuse_overwrite"),      *)
(* except that the target directory gets new entries.                      *)
ExistingKept ==
  ~force => \A p \in DOMAIN before \ {<<>>, Target} : Exists(p) /\ disk[p] = before[p]
=============================================================================
