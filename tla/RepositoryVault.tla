--------------------------- MODULE RepositoryVault ---------------------------
(***************************************************************************)
(* The repository implements the snapshot vault as long as no prune stops  *)
(* between the deletion of a pack and the removal of its index entries, no *)
(* staging error is swallowed and no session is used after an exception.   *)
(* The vault holds the snapshots whose every chunk is findable.            *)
(***************************************************************************)
EXTENDS RepositoryInv

Intact(x) == \A c \in Reachable(Listing(x)) : Findable(c)

BackedUp == IF pc \in {"scan", "final"} THEN {src \cup cur \cup kept} ELSE {}

Vault == INSTANCE SnapshotVault
           WITH vault <- {x \in snaps : Intact(x)}, asked <- BackedUp

(* A backup that reports success put all that it was asked for into the    *)
(* vault, and no later step of any operation takes a snapshot out of it    *)
(* (backup/snapshot.py: every snapshot blob present describes a fully      *)
(* restorable state).                                                      *)
VaultSpec == Vault!Spec
=============================================================================
