------------------------------ MODULE ScanTree -------------------------------
(***************************************************************************)
(* scan_directory (backup/scanner.py): a depth-first walk of a directory   *)
(* that stores the chunks of every file and, on its way back, the node of  *)
(* every directory.  Any system call on a path and any put of a new chunk  *)
(* may raise OSError: a file that vanished or cannot be read, a full disk. *)
(* A put may also raise BackendError, which is none and is caught nowhere. *)
(* What a put has returned for is taken to be stored; the store itself is  *)
(* the subject of Repository.                                              *)
(***************************************************************************)
EXTENDS TreeNodes

CONSTANTS
  Sources,          \* directories to back up: functions from paths to items
  Excluded,         \* paths that the exclude predicate rejects
  MaxScanFailures   \* bounds how many calls raise during a scan

(* Names are numbers; every path but <<>> is a name in a directory, and    *)
(* only such a path is put to the exclude predicate.  Links have no mode   *)
(* to speak of.                                                            *)
ASSUME ScanAssumption ==
  /\ MaxScanFailures \in Nat
  /\ Excluded \subseteq Seq(Nat) \ {<<>>}
  /\ \A s \in Sources :
       /\ DOMAIN s \subseteq Seq(Nat) /\ <<>> \in DOMAIN s
       /\ \A p \in DOMAIN s : p # <<>> => Front(p) \in DOMAIN s /\ s[Front(p)].type = "dir"
       /\ \A p \in DOMAIN s : s[p].data \in Seq(Range(s[p].data))
       /\ \A p \in DOMAIN s : s[p].type = "link" => s[p].mode = "open"

VARIABLES
  source,     \* the directory
  scan,       \* "list", "walk", "file", "done", or "raised"
  stack,      \* directories being scanned, the innermost last
  file,       \* the chunks read of the open file
  chunks,     \* ids in the store
  skipped,    \* the skip list of the report: paths with reasons
  root,       \* id of the root node, when there is one
  failures    \* number of calls that raised

scanVars == <<source, scan, stack, file, chunks, skipped, root, failures>>

NoRoot == NodeId({})

Frame(path) == [path |-> path, todo |-> {}, entries |-> {}]

ScanInit ==
  /\ source \in Sources
  /\ scan = "list" /\ stack = <<Frame(<<>>)>>
  /\ file = <<>> /\ chunks = {} /\ skipped = {} /\ root = NoRoot /\ failures = 0

-----------------------------------------------------------------------------
Top  == Last(stack)
Name == Min(Top.todo)
Here == Append(Top.path, Name)

(* sorted(os.listdir(dirpath)) *)
Listing(path) == {p[Len(p)] : p \in {q \in DOMAIN source : q # <<>> /\ Front(q) = path}}

(* The loop over the names of s's innermost directory is done with one. *)
Passed(s) == Front(s) \o <<[Last(s) EXCEPT !.todo = @ \ {Min(@)}]>>

Captured(s, e) ==
  Passed(Front(s) \o <<[Last(s) EXCEPT !.entries = @ \cup {e}]>>)

Raises ==
  /\ failures < MaxScanFailures
  /\ failures' = failures + 1

Skip(path, reason) == skipped' = skipped \cup {<<path, reason>>}

SkipHere(reason) ==
  /\ Skip(Here, reason)
  /\ stack' = Passed(stack)
  /\ scan' = "walk"

(* Mutant: an unreadable directory is recorded as empty without a word. *)
ListDirSilently ==
  /\ scan = "list" /\ scan' = "walk"
  /\ \/ /\ stack' = Front(stack) \o <<[Top EXCEPT !.todo = Listing(Top.path)]>>
        /\ UNCHANGED <<skipped, failures>>
     \/ /\ Raises
        /\ UNCHANGED <<stack, skipped>>
  /\ UNCHANGED <<source, file, chunks, root>>

ListDir ==
  /\ scan = "list" /\ scan' = "walk"
  /\ \/ /\ stack' = Front(stack) \o <<[Top EXCEPT !.todo = Listing(Top.path)]>>
        /\ UNCHANGED <<skipped, failures>>
     \/ /\ Raises /\ Skip(Top.path, "unreadable")
        /\ UNCHANGED stack
  /\ UNCHANGED <<source, file, chunks, root>>

Visiting == scan = "walk" /\ Top.todo # {}
Reached(type) == Visiting /\ Here \notin Excluded /\ source[Here].type = type

PassExcluded ==
  /\ Visiting /\ Here \in Excluded
  /\ stack' = Passed(stack)
  /\ UNCHANGED <<source, scan, file, chunks, skipped, root, failures>>

(* lstat, readlink or open raises. *)
VisitFails ==
  /\ Visiting /\ Here \notin Excluded
  /\ Raises /\ SkipHere("unread")
  /\ UNCHANGED <<source, file, chunks, root>>

VisitSpecial ==
  /\ Reached("special")
  /\ SkipHere("special")
  /\ UNCHANGED <<source, file, chunks, root, failures>>

VisitLink ==
  /\ Reached("link")
  /\ stack' = Captured(stack, LinkEntry(Name, source[Here].data[1]))
  /\ UNCHANGED <<source, scan, file, chunks, skipped, root, failures>>

VisitDir ==
  /\ Reached("dir")
  /\ stack' = Append(stack, Frame(Here))
  /\ scan' = "list"
  /\ UNCHANGED <<source, file, chunks, skipped, root, failures>>

VisitFile ==
  /\ Reached("file")
  /\ scan' = "file" /\ file' = <<>>
  /\ UNCHANGED <<source, stack, chunks, skipped, root, failures>>

-----------------------------------------------------------------------------
(* _scan_file *)

(* put() of the next chunk, which finds an old one stored. *)
ScanChunk ==
  /\ scan = "file" /\ Len(file) < Len(source[Here].data)
  /\ LET c == source[Here].data[Len(file) + 1] IN
     chunks' = chunks \cup {ChunkId(c)} /\ file' = Append(file, c)
  /\ UNCHANGED <<source, scan, stack, skipped, root, failures>>

(* A read, or the put of a new chunk: earlier chunks of the file stay in   *)
(* the store.                                                              *)
ScanFails ==
  /\ scan = "file"
  /\ Raises /\ SkipHere("unread")
  /\ UNCHANGED <<source, file, chunks, root>>

EndFile ==
  /\ scan = "file" /\ Len(file) = Len(source[Here].data)
  /\ scan' = "walk"
  /\ stack' = Captured(stack, FileEntry(Name, source[Here].mode, file))
  /\ UNCHANGED <<source, file, chunks, skipped, root, failures>>

-----------------------------------------------------------------------------
(* store_tree_node and the return to the parent *)

EndDir == scan = "walk" /\ Top.todo = {}

Node   == NodeId(Top.entries)
Nested == Len(stack) > 1

Return ==
  LET up == Front(stack) IN
  stack' = Captured(up, DirEntry(Min(Last(up).todo), source[Top.path].mode, Node))

StoreNode ==
  /\ EndDir
  /\ chunks' = chunks \cup {Node}
  /\ IF Nested
     THEN Return /\ UNCHANGED <<scan, root>>
     ELSE scan' = "done" /\ root' = Node /\ UNCHANGED stack
  /\ UNCHANGED <<source, file, skipped, failures>>

(* Mutant: the entry of the directory is appended before its node is stored. *)
StoreNodeFailsLate ==
  /\ EndDir /\ Node \notin chunks /\ Raises
  /\ IF Nested
     THEN Return /\ Skip(Top.path, "unread") /\ UNCHANGED scan
     ELSE scan' = "raised" /\ UNCHANGED <<stack, skipped>>
  /\ UNCHANGED <<source, file, chunks, root>>

(* The parent skips the directory; for the root the exception leaves the   *)
(* scan.                                                                   *)
StoreNodeFails ==
  /\ EndDir /\ Node \notin chunks /\ Raises
  /\ IF Nested
     THEN /\ stack' = Passed(Front(stack))
          /\ Skip(Top.path, "unread") /\ UNCHANGED scan
     ELSE scan' = "raised" /\ UNCHANGED <<stack, skipped>>
  /\ UNCHANGED <<source, file, chunks, root>>

NewChunk ==
  /\ scan = "file" /\ Len(file) < Len(source[Here].data)
  /\ ChunkId(source[Here].data[Len(file) + 1]) \notin chunks

(* BackendError of a put leaves the scan from any depth. *)
PutRaises ==
  /\ NewChunk \/ (EndDir /\ Node \notin chunks)
  /\ Raises /\ scan' = "raised"
  /\ UNCHANGED <<source, stack, file, chunks, skipped, root>>

ScanStep ==
  \/ ListDir \/ PassExcluded \/ VisitFails \/ VisitSpecial
  \/ VisitLink \/ VisitDir \/ VisitFile
  \/ ScanChunk \/ ScanFails \/ EndFile
  \/ StoreNode \/ StoreNodeFails \/ PutRaises

-----------------------------------------------------------------------------
(* Properties. *)

(* Bottom-up (scanner.py, "tree construction"): at no instant, whatever    *)
(* has failed, does the store hold a node that names a chunk or a node     *)
(* that is not stored, hence none from which one can be reached; a scan    *)
(* that dies strands orphans only.                                         *)
NodesComplete(stored) ==
  \A id \in stored : id[1] = "node" => \A e \in Entries(id) : Needs(e) \subseteq stored

Recorded(path) == EntriesAt(root, path)

Hidden(path) ==
  \/ \E p \in Excluded : IsPrefix(p, path)
  \/ \E s \in skipped : IF s[2] = "unreadable" THEN IsStrictPrefix(s[1], path)
                                               ELSE IsPrefix(s[1], path)

EntryOf(path, e) ==
  LET item == source[path] IN
  /\ e.type = item.type /\ e.mode = item.mode
  /\ item.type = "file" => e = FileEntry(e.name, item.mode, item.data)
  /\ item.type = "link" => e = LinkEntry(e.name, item.data[1])

(* The report carries the truth (scanner.py, "what gets skipped"): the     *)
(* tree of a scan that ends holds each path of the directory, with its     *)
(* content and mode, exactly if neither it nor a directory above it is     *)
(* excluded or in the skip list; and every skip is a special file or the   *)
(* result of a call that raised.                                           *)
ScanHonest ==
  scan = "done" =>
    /\ \A p \in DOMAIN source \ {<<>>} :
         /\ Recorded(p) # {} <=> ~Hidden(p)
         /\ \A e \in Recorded(p) : EntryOf(p, e)
    /\ \A p \in DOMAIN source : \A n \in NodesAt(root, p) : \A e \in Entries(n) :
         Append(p, e.name) \in DOMAIN source
    /\ Cardinality({s \in skipped : s[2] # "special"}) <= failures
    /\ \A s \in skipped : s[2] = "special" => source[s[1]].type = "special"
=============================================================================
