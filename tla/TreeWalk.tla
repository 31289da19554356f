------------------------------ MODULE TreeWalk --------------------------------
(***************************************************************************)
(* walk_tree (backup/manifest.py), the traversal that list, check and the  *)
(* mark phase of gc share, of a tree that a scan has stored and of which   *)
(* the store may have lost chunks since.                                   *)
(***************************************************************************)
EXTENDS ScanTree

VARIABLES
  walk,    \* "idle", "begun", "walk", "done" or "raised"
  intact,  \* the chunks of the store that are not lost
  trail,   \* nodes being walked, the innermost last
  listed   \* what was yielded: entries with their paths

walkVars == <<walk, intact, trail, listed>>

WalkInit ==
  /\ walk = "idle" /\ intact = {} /\ trail = <<>> /\ listed = {}

-----------------------------------------------------------------------------
Deepest == Last(trail)
Foremost == CHOOSE e \in Deepest.todo : \A f \in Deepest.todo : e.name <= f.name
Spot == Append(Deepest.path, Foremost.name)
Onward == Front(trail) \o <<[Deepest EXCEPT !.todo = @ \ {Foremost}]>>

(* Mutant: a node that is missing is taken for an empty directory. *)
LoadMissing(above, path, node) ==
  /\ walk' = "walk"
  /\ trail' = Append(above, [path |-> path, todo |-> IF node \in intact THEN Entries(node) ELSE {}])

(* load_tree_node, below the nodes above; its exception ends the walk. *)
Load(above, path, node) ==
  IF node \in intact
  THEN walk' = "walk" /\ trail' = Append(above, [path |-> path, todo |-> Entries(node)])
  ELSE walk' = "raised" /\ UNCHANGED trail

BeginWalk ==
  /\ scan = "done" /\ walk = "idle" /\ walk' = "begun"
  /\ intact' \in SUBSET chunks
  /\ UNCHANGED <<scanVars, trail, listed>>

LoadRoot ==
  /\ walk = "begun"
  /\ Load(<<>>, <<>>, root)
  /\ UNCHANGED <<scanVars, intact, listed>>

(* Mutant: the prefix is not handed down. *)
YieldEntryUnprefixed ==
  /\ walk = "walk" /\ Deepest.todo # {}
  /\ listed' = listed \cup {<<Spot, Foremost>>}
  /\ IF IsDirEntry(Foremost)
     THEN Load(Onward, Deepest.path, Subnode(Foremost))
     ELSE trail' = Onward /\ UNCHANGED walk
  /\ UNCHANGED <<scanVars, intact>>

(* The entry is yielded before the node below it is loaded. *)
YieldEntry ==
  /\ walk = "walk" /\ Deepest.todo # {}
  /\ listed' = listed \cup {<<Spot, Foremost>>}
  /\ IF IsDirEntry(Foremost)
     THEN Load(Onward, Spot, Subnode(Foremost))
     ELSE trail' = Onward /\ UNCHANGED walk
  /\ UNCHANGED <<scanVars, intact>>

LeaveNode ==
  /\ walk = "walk" /\ Deepest.todo = {}
  /\ trail' = Front(trail)
  /\ walk' = IF Len(trail) = 1 THEN "done" ELSE "walk"
  /\ UNCHANGED <<scanVars, intact, listed>>

WalkStep == BeginWalk \/ LoadRoot \/ YieldEntry \/ LeaveNode

-----------------------------------------------------------------------------
(* What the walk is for. *)

IdsOf(entries) == UNION {Needs(e) : e \in entries}

(* Mutant: the chunks of files only. *)
MarkedFiles == {root} \cup IdsOf({e \in {w[2] : w \in listed} : e.type = "file"})

(* collect_reachable_ids: what gc keeps. *)
Marked == {root} \cup IdsOf({w[2] : w \in listed})

(* What check looks up in the index once the walk is over; the nodes below *)
(* the root are not among it, since the walk has read them.                *)
Referenced == {root} \cup IdsOf({e \in {w[2] : w \in listed} : e.type = "file"})

CheckClean == walk = "done" /\ Referenced \subseteq intact

-----------------------------------------------------------------------------
(* Properties. *)

(* The tree as a restore finds it: by path, and not by the walk.           *)
Tree  == UNION {{<<p, e>> : e \in Recorded(p)} : p \in DOMAIN source \ {<<>>}}
Named == {root} \cup IdsOf({w[2] : w \in Tree})

(* A walk that ends has yielded every entry that a restore finds, each at  *)
(* its path, and nothing else, also where two directories are one node     *)
(* (cmd_list.py shows what restore takes as an argument).                  *)
WalkListsTree == walk = "done" => listed = Tree

(* The mark phase keeps all that a restore of the snapshot goes for        *)
(* (manifest.py: "Tree nodes MUST be in the live set") and not a chunk     *)
(* more: what a failed scan of a file has left goes with the next prune.   *)
MarkExact == walk = "done" => Marked = Named

(* A check of references is clean if and only if nothing that a restore    *)
(* goes for is lost (verify.py, tiers 2 and 3): a missing node ends the    *)
(* walk, a missing chunk of a file is found in the lookup, and nothing     *)
(* else is blamed.                                                         *)
CheckFindsDamage ==
  walk \in {"done", "raised"} => (CheckClean <=> Named \subseteq intact)
=============================================================================
