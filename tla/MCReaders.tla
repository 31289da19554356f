------------------------------ MODULE MCReaders ------------------------------
(* Readers on small instances: a few file contents, directories, nonces    *)
(* and snapshot ids.                                                       *)
EXTENDS Readers, TLC

CONSTANTS a, b, MaxPacks

Directories == {{a}, {a, b}} \cap SUBSET Data

PacksBound == Cardinality(packs) <= MaxPacks

(* Leaves out what follows once a sweep or a rebuild has overlapped a      *)
(* reader: the properties about undisturbed readers say nothing there.     *)
Undisturbed == during \cap Disturbing = {}

Symmetry == Permutations(Nonce) \cup Permutations(SnapId)
=============================================================================
