-------------------------------- MODULE Reader --------------------------------
(***************************************************************************)
(* A lockless reader beside the writer of Repository: restore and check    *)
(* open a session of their own and take no lock (repo.py locking policy).  *)
(* Every ObjectStore.get of theirs is two steps, with the writer's steps   *)
(* in between: the index names a pack, and then the pack is read.          *)
(***************************************************************************)
EXTENDS Repository

VARIABLES
  reading,    \* the chunk a get() has located: {} or a singleton
  at,         \* the pack the index named for it
  during,     \* history: what overlapped the reader, of collect, rebuild, forget
  sound       \* history: the repository was undamaged when the reader began

readerVars == <<reading, at, during, sound>>
historyVars == <<during, sound>>

Disturbing == {"collect", "rebuild"}

ReaderTypeOK ==
  /\ reading \subseteq Chunk /\ Cardinality(reading) <= 1
  /\ at \in Pack
  /\ during \subseteq Disturbing \cup {"forget"}
  /\ sound \in BOOLEAN

ReaderInit == reading = {} /\ at = NoPack /\ during = {} /\ sound = FALSE

Undamaged == /\ \A c \in Chunk : ~Dangling(c)
             /\ \A c \in Referenced : Located(c)

ReaderOpens ==
  /\ during' = {pc} \cap Disturbing
  /\ sound' = Undamaged
  /\ UNCHANGED <<reading, at>>

ReaderCloses == during' = {} /\ sound' = FALSE /\ UNCHANGED <<reading, at>>

(* Mutant: a second lookup before the first pack was read.                 *)
LocateOverlapping(c) ==
  /\ Indexed(c)
  /\ reading' = reading \cup {c}
  /\ at' = index[c]
  /\ UNCHANGED historyVars

(* index.get: one LMDB read transaction. *)
Locate(c) ==
  /\ reading = {}
  /\ Indexed(c)
  /\ reading' = {c}
  /\ at' = index[c]
  /\ UNCHANGED historyVars

(* read_blob and the verification after it. *)
Fetched(c) ==
  /\ reading = {c}
  /\ at \in packs
  /\ reading' = {} /\ at' = NoPack
  /\ UNCHANGED historyVars

(* ChunkNotFound: no entry, or the pack is gone. *)
Missing(c) ==
  /\ \/ reading = {} /\ ~Indexed(c)
     \/ reading = {c} /\ at \notin packs
  /\ reading' = {} /\ at' = NoPack
  /\ UNCHANGED historyVars

(* A step of the writer, or of forget, while the reader is at work. *)
WriterStep(open) ==
  /\ Next
  /\ during' = IF ~open THEN during
               ELSE during \cup ({pc'} \cap Disturbing)
                           \cup (IF snaps \subseteq snaps' THEN {} ELSE {"forget"})
  /\ UNCHANGED <<reading, at, sound>>
=============================================================================
