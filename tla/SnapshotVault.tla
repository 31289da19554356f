---------------------------- MODULE SnapshotVault ----------------------------
(***************************************************************************)
(* What the repository promises its user, without packs, index or sweep:   *)
(* a vault of restorable snapshots.  A backup of a directory either puts   *)
(* exactly that directory into the vault, in one step, or leaves no trace; *)
(* a snapshot leaves the vault only when it is forgotten.  This is the     *)
(* contract of backup/snapshot.py.                                         *)
(***************************************************************************)
CONSTANTS
  SnapId,     \* snapshot ids
  Sources     \* the directories that get backed up, each a set of contents

VARIABLES
  vault,      \* the restorable snapshots: pairs of an id and a listing
  asked       \* the directory being backed up: {} or a singleton

vvars == <<vault, asked>>

Init == vault = {} /\ asked = {}

Begin ==
  /\ asked = {}
  /\ \E S \in Sources : asked' = {S}
  /\ UNCHANGED vault

(* The backup succeeds. *)
Create ==
  /\ \E S \in asked, s \in SnapId :
       /\ \A x \in vault : x[1] # s
       /\ vault' = vault \cup {<<s, S>>}
  /\ asked' = {}

(* The backup ends without a snapshot. *)
Abandon ==
  /\ asked # {}
  /\ asked' = {}
  /\ UNCHANGED vault

Forget ==
  /\ \E x \in vault : vault' = vault \ {x}
  /\ UNCHANGED asked

Next == Begin \/ Create \/ Abandon \/ Forget

Spec == Init /\ [][Next]_vvars
=============================================================================
