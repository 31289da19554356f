------------------------------- MODULE Restore -------------------------------
(***************************************************************************)
(* restore (backup/restore.py restore_tree) while the writer goes on: the  *)
(* root node is read, then file after file into a new directory.  A file   *)
(* whose chunk cannot be read is reported as failed and the restore goes   *)
(* on; a root that cannot be read ends it.                                 *)
(***************************************************************************)
EXTENDS Reader

VARIABLES
  reader,     \* where the restore is
  wanted,     \* the snapshot being restored: {} or a singleton
  left,       \* files not yet restored
  failed      \* chunks that could not be read

restoreVars == <<reader, wanted, left, failed>>

RestoreTypeOK ==
  /\ reader \in {"idle", "tree", "files", "done"}
  /\ wanted \subseteq Snapshot
  /\ left \subseteq Data
  /\ failed \subseteq Chunk

RestoreInit ==
  /\ reader = "idle"
  /\ wanted = {} /\ left = {} /\ failed = {}

(* resolve_snapshot has loaded the record. *)
BeginRestore ==
  /\ reader = "idle"
  /\ \E x \in snaps : wanted' = {x}
  /\ reader' = "tree"
  /\ ReaderOpens
  /\ UNCHANGED <<vars, left, failed>>

LoadRoot ==
  /\ reader = "tree"
  /\ \E x \in wanted :
       LET root == TreeChunk(Listing(x)) IN
       \/ /\ Locate(root)
          /\ UNCHANGED restoreVars
       \/ /\ Fetched(root)
          /\ left' = Listing(x)
          /\ reader' = "files"
          /\ UNCHANGED <<wanted, failed>>
       \/ /\ Missing(root)
          /\ failed' = {root}
          /\ reader' = "done"
          /\ UNCHANGED <<wanted, left>>
  /\ UNCHANGED vars

(* _write_file_streaming into a temporary file, renamed when complete. *)
RestoreFile(d) ==
  /\ reader = "files" /\ d \in left
  /\ \/ /\ Locate(FileChunk(d))
        /\ UNCHANGED restoreVars
     \/ /\ Fetched(FileChunk(d))
        /\ left' = left \ {d}
        /\ UNCHANGED <<reader, wanted, failed>>
     \/ /\ Missing(FileChunk(d))
        /\ left' = left \ {d}
        /\ failed' = failed \cup {FileChunk(d)}
        /\ UNCHANGED <<reader, wanted>>
  /\ UNCHANGED vars

ReportRestore ==
  /\ reader = "files" /\ left = {}
  /\ reader' = "done"
  /\ UNCHANGED <<vars, readerVars, wanted, left, failed>>

EndRestore ==
  /\ reader = "done"
  /\ reader' = "idle"
  /\ wanted' = {} /\ left' = {} /\ failed' = {}
  /\ ReaderCloses
  /\ UNCHANGED vars

RestoreAction ==
  \/ BeginRestore \/ LoadRoot
  \/ \E d \in left : RestoreFile(d)
  \/ ReportRestore \/ EndRestore

-----------------------------------------------------------------------------
(* Properties. *)

(* A restore of an undamaged repository fails only if a sweep or a rebuild *)
(* overlapped it: backups and forgets that run beside it, or that fail or  *)
(* stop beside it, never make it fail (repo.py: restore is lockless).      *)
RestoreUndisturbed == failed # {} => ~sound \/ during \cap Disturbing # {}
=============================================================================
