------------------------------ MODULE TreeNodes ------------------------------
(***************************************************************************)
(* Directory trees as chunks (backup/manifest.py).  A node is the set of   *)
(* the entries of a directory: the canonical form sorts them by name, and  *)
(* equal directories have equal nodes.  A node is named by its hash, which *)
(* stands for the node.                                                    *)
(*                                                                         *)
(* A name is a number, in the order of the names; a path is a sequence of  *)
(* names.                                                                  *)
(***************************************************************************)
EXTENDS Naturals, SequencesExt

ChunkId(c)      == <<"chunk", c>>
NodeId(entries) == <<"node", entries>>
Entries(node)   == node[2]

(* content: the chunk ids of a file, the node id of a directory, the       *)
(* target of a link.  hash: the hash of a whole file, which stands for it. *)
Entry(name, type, mode, content, hash) ==
  [name |-> name, type |-> type, mode |-> mode, content |-> content, hash |-> hash]

FileEntry(name, mode, data) ==
  Entry(name, "file", mode, [i \in DOMAIN data |-> ChunkId(data[i])], data)
DirEntry(name, mode, node) == Entry(name, "dir", mode, <<node>>, <<>>)
LinkEntry(name, goal)      == Entry(name, "link", "open", <<<<"link", goal>>>>, <<>>)

IsDirEntry(e) == e.type = "dir"
Subnode(e)    == e.content[1]

(* The chunks that must be read to restore an entry. *)
Needs(e) == IF e.type = "link" THEN {} ELSE {e.content[i] : i \in DOMAIN e.content}

(* The nodes that a path leads to from a node, name by name: one, or none. *)
NodesAt(node, path) ==
  LET at[k \in 0 .. Len(path)] ==
        IF k = 0 THEN {node}
        ELSE {Subnode(e) : e \in {f \in UNION {Entries(n) : n \in at[k - 1]} :
                                    IsDirEntry(f) /\ f.name = path[k]}}
  IN at[Len(path)]

(* The entry that it leads to, if it is not empty. *)
EntriesAt(node, path) ==
  {e \in UNION {Entries(n) : n \in NodesAt(node, Front(path))} : e.name = Last(path)}
=============================================================================
