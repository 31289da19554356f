-------------------------- MODULE RepositoryHistory --------------------------
(***************************************************************************)
(* Repository with a history variable.  A rebuild empties the index before *)
(* it scans the packs (cas/index.py), so between its start and the next    *)
(* rebuild that finishes no snapshot need be restorable.  The variable     *)
(* whole is FALSE in exactly that time; it does not restrict any step.     *)
(***************************************************************************)
EXTENDS RepositoryVault

VARIABLE whole    \* no rebuild is running, or stopped before it was done

historyVars == <<vars, whole>>

HistoryInit == Init /\ whole = TRUE

Record ==
  whole' = /\ pc' # "rebuild"
           /\ whole \/ (pc = "rebuild" /\ unscanned = {})

HistoryNext == Next /\ Record

HistorySpec == HistoryInit /\ [][HistoryNext]_historyVars

(* An operation that runs goes on until it returns or raises. *)
HistoryFairSpec == HistorySpec /\ WF_vars(Operate)

(* The contract of backup/snapshot.py: at any instant every snapshot       *)
(* record describes a fully restorable state, except from the start of a   *)
(* rebuild until one is done.                                              *)
SnapshotsRestorable == whole => \A c \in Referenced : Located(c)
=============================================================================
