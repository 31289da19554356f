--------------------------------- MODULE Check ---------------------------------
(***************************************************************************)
(* check (backup/verify.py) while the writer goes on.  The snapshots are   *)
(* listed and loaded, their trees walked, every chunk they reach is looked *)
(* up in the index, the packs are listed, and then every index entry of    *)
(* one LMDB read transaction is compared with the index of the moment and  *)
(* with the backend.  Reading all data back is optional.                   *)
(***************************************************************************)
EXTENDS Reader

VARIABLES
  checker,    \* where the check is
  walk,       \* listed snapshots, then those not yet walked
  checked,    \* the snapshots whose trees were walked
  referenced, \* chunks still to be looked up in the index
  listed,     \* packs found in the backend
  cursor,     \* index entries still to be compared: pairs of chunk and pack
  problems,   \* what is reported besides orphan packs
  orphans     \* orphan packs reported

checkVars == <<checker, walk, checked, referenced, listed, cursor, problems,
               orphans>>

CheckTypeOK ==
  /\ checker \in {"idle", "load", "walk", "lookup", "packs", "entries", "read",
                  "done", "aborted"}
  /\ walk \subseteq Snapshot /\ checked \subseteq Snapshot
  /\ referenced \subseteq Chunk
  /\ listed \subseteq Pack /\ orphans \subseteq Pack
  /\ cursor \subseteq Chunk \X Pack
  /\ problems \subseteq {"error", "missing", "pack", "corrupt"}

CheckInit ==
  /\ checker = "idle"
  /\ walk = {} /\ checked = {} /\ referenced = {}
  /\ listed = {} /\ cursor = {}
  /\ problems = {} /\ orphans = {}

-----------------------------------------------------------------------------
BeginCheck ==
  /\ checker = "idle"
  /\ checker' = "load"
  /\ walk' = snaps
  /\ ReaderOpens
  /\ UNCHANGED <<vars, checked, referenced, listed, cursor, problems, orphans>>

(* Any exception of list_snapshots is reported, and nothing is walked. *)
LoadListed ==
  /\ checker = "load"
  /\ checker' = "walk"
  /\ IF walk \subseteq snaps
     THEN UNCHANGED <<walk, problems>>
     ELSE walk' = {} /\ problems' = problems \cup {"error"}
  /\ UNCHANGED <<vars, readerVars, checked, referenced, listed, cursor, orphans>>

WalkTree(x) ==
  /\ checker = "walk" /\ x \in walk
  /\ LET root == TreeChunk(Listing(x)) IN
     \/ /\ Locate(root)
        /\ UNCHANGED checkVars
     \/ /\ Fetched(root)
        /\ walk' = walk \ {x}
        /\ checked' = checked \cup {x}
        /\ referenced' = referenced \cup Reachable(Listing(x))
        /\ UNCHANGED <<checker, listed, cursor, problems, orphans>>
     \/ /\ Missing(root)
        /\ walk' = walk \ {x}
        /\ problems' = problems \cup {"error"}
        /\ UNCHANGED <<checker, checked, referenced, listed, cursor, orphans>>
  /\ UNCHANGED vars

Lookup(c) ==
  /\ checker = "walk" /\ walk = {} /\ c \in referenced
  /\ problems' = problems \cup IF Indexed(c) THEN {} ELSE {"missing"}
  /\ referenced' = referenced \ {c}
  /\ UNCHANGED <<vars, readerVars, checker, walk, checked, listed, cursor,
                 orphans>>

ListPacks ==
  /\ checker = "walk" /\ walk = {} /\ referenced = {}
  /\ checker' = "packs"
  /\ listed' = packs
  /\ UNCHANGED <<vars, readerVars, walk, checked, referenced, cursor, problems,
                 orphans>>

(* iter_all: the cursor sees the index of this moment to its end. *)
OpenCursor ==
  /\ checker = "packs"
  /\ checker' = "entries"
  /\ cursor' = {<<c, index[c]>> : c \in {d \in Chunk : Indexed(d)}}
  /\ orphans' = {p \in listed : \A e \in cursor' : e[2] # p}
  /\ UNCHANGED <<vars, readerVars, walk, checked, referenced, listed, problems>>

(* Mutant: compares with the list of packs taken earlier.                  *)
CompareEntryListed(e) ==
  /\ checker = "entries" /\ e \in cursor
  /\ cursor' = cursor \ {e}
  /\ problems' = problems \cup IF e[2] \in listed THEN {} ELSE {"pack"}
  /\ UNCHANGED <<vars, readerVars, checker, walk, checked, referenced, listed,
                 orphans>>

(* Mutant: does not ask the backend for the pack.                          *)
CompareEntryUnprobed(e) ==
  /\ checker = "entries" /\ e \in cursor
  /\ cursor' = cursor \ {e}
  /\ UNCHANGED <<vars, readerVars, checker, walk, checked, referenced, listed,
                 problems, orphans>>

(* The entry is looked up again; the pack is the one the cursor saw. *)
CompareEntry(e) ==
  /\ checker = "entries" /\ e \in cursor
  /\ IF Indexed(e[1])
     THEN /\ cursor' = cursor \ {e}
          /\ problems' = problems \cup IF e[2] \in packs THEN {} ELSE {"pack"}
          /\ UNCHANGED checker
     ELSE /\ checker' = "aborted"      \* assert located is not None
          /\ UNCHANGED <<cursor, problems>>
  /\ UNCHANGED <<vars, readerVars, walk, checked, referenced, listed, orphans>>

(* Report, or go on with --read-data. *)
EntriesDone ==
  /\ checker = "entries" /\ cursor = {}
  /\ \/ checker' = "done" /\ UNCHANGED cursor
     \/ /\ checker' = "read"
        /\ cursor' = {<<c, index[c]>> : c \in {d \in Chunk : Indexed(d)}}
  /\ UNCHANGED <<vars, readerVars, walk, checked, referenced, listed, problems,
                 orphans>>

ReadBack(e) ==
  /\ checker = "read" /\ e \in cursor
  /\ \/ /\ Locate(e[1])
        /\ UNCHANGED checkVars
     \/ /\ Fetched(e[1])
        /\ cursor' = cursor \ {e}
        /\ UNCHANGED <<checker, walk, checked, referenced, listed, problems,
                       orphans>>
     \/ /\ Missing(e[1])
        /\ cursor' = cursor \ {e}
        /\ problems' = problems \cup {"corrupt"}
        /\ UNCHANGED <<checker, walk, checked, referenced, listed, orphans>>
  /\ UNCHANGED vars

ReadDone ==
  /\ checker = "read" /\ cursor = {}
  /\ checker' = "done"
  /\ UNCHANGED <<vars, readerVars, walk, checked, referenced, listed, cursor,
                 problems, orphans>>

EndCheck ==
  /\ checker \in {"done", "aborted"}
  /\ checker' = "idle"
  /\ walk' = {} /\ checked' = {} /\ referenced' = {}
  /\ listed' = {} /\ cursor' = {}
  /\ problems' = {} /\ orphans' = {}
  /\ ReaderCloses
  /\ UNCHANGED vars

CheckAction ==
  \/ BeginCheck \/ LoadListed
  \/ \E x \in walk : WalkTree(x)
  \/ \E c \in referenced : Lookup(c)
  \/ ListPacks \/ OpenCursor
  \/ \E e \in cursor : CompareEntry(e) \/ ReadBack(e)
  \/ EntriesDone \/ ReadDone \/ EndCheck

-----------------------------------------------------------------------------
(* Properties. *)

(* Beside backups alone, a check of an undamaged repository reports        *)
(* nothing but orphan packs (backup/verify.py: safe to run concurrently    *)
(* with backups).                                                          *)
NoFalseAlarm ==
  problems # {} \/ checker = "aborted" => ~sound \/ during # {}

(* A check that reports no problem, with neither a sweep nor a rebuild     *)
(* beside it, has seen every snapshot it checked to be restorable, in      *)
(* whatever state earlier faults left the repository (backup/verify.py:    *)
(* a missing chunk is found now instead of at restore).                    *)
CleanReportIsTrue ==
  checker = "done" /\ problems = {} /\ during \cap Disturbing = {} =>
    \A x \in checked \cap snaps : \A c \in Reachable(Listing(x)) : Located(c)
=============================================================================
