---------------------------- MODULE MCRepository ----------------------------
(* Repository on small instances: a few file contents, directories, nonces *)
(* and snapshot ids.                                                       *)
EXTENDS RepositoryVault, TLC

CONSTANTS
  a, b,
  MaxPacks    \* bounds the packs that the explored states hold

Directories == {{a}, {a, b}} \cap SUBSET Data
MaybeEmpty == {{}, {a}}

PacksBound == Cardinality(packs) <= MaxPacks

(* Nonces and snapshot ids are interchangeable; contents are not, since    *)
(* Directories tells them apart.                                           *)
Symmetry == Permutations(Nonce) \cup Permutations(SnapId)
=============================================================================
