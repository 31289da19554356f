----------------------------- MODULE MCRepoInit ------------------------------
(* Two processes, each of which may be an init or a session at any time.   *)
EXTENDS RepoInit, TLC

CONSTANTS root, keysDir, packsDir

InDirs == (Config :> root) @@ (KeyName :> keysDir) @@ (Pack :> packsDir)

Symmetry == Permutations(Process) \cup Permutations(Key)
=============================================================================
