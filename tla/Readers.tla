-------------------------------- MODULE Readers --------------------------------
(***************************************************************************)
(* A restore or a check beside the writer and forget.  Readers share       *)
(* nothing with each other and change nothing, so one at a time is enough. *)
(***************************************************************************)
EXTENDS Restore, Check

ReadersTypeOK == TypeOK /\ ReaderTypeOK /\ RestoreTypeOK /\ CheckTypeOK

ReadersInit == Init /\ ReaderInit /\ RestoreInit /\ CheckInit

Open == reader # "idle" \/ checker # "idle"

ReadersNext ==
  \/ WriterStep(Open) /\ UNCHANGED <<restoreVars, checkVars>>
  \/ checker = "idle" /\ RestoreAction /\ UNCHANGED checkVars
  \/ reader = "idle" /\ CheckAction /\ UNCHANGED restoreVars

ReadersSpec ==
  ReadersInit /\ [][ReadersNext]_<<vars, readerVars, restoreVars, checkVars>>

-----------------------------------------------------------------------------
(* What the comments of the code claim and the code does not do. *)

(* Reading without the lock is consistent (repo.py locking policy: "LMDB   *)
(* read snapshots give consistency"): in an undamaged repository a restore *)
(* or a check comes to its end, without a failed chunk and without an      *)
(* AssertionError, unless snapshots are forgotten or the index is rebuilt  *)
(* while it runs.                                                          *)
LocklessReadsConsistent ==
  failed # {} \/ checker = "aborted"
    => ~sound \/ during \cap {"forget", "rebuild"} # {}
=============================================================================
