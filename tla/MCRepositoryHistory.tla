------------------------- MODULE MCRepositoryHistory -------------------------
(* RepositoryHistory on the instances of MCRepository. *)
EXTENDS MCRepository, RepositoryHistory
=============================================================================
