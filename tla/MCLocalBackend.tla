---------------------------- MODULE MCLocalBackend ----------------------------
(* The local backend with a blob in the repository directory and blobs in  *)
(* another one, of which nothing is on disk at first, and two processes.   *)
EXTENDS BackendStore, TLC

CONSTANTS root, packsDir, config, pack1, pack2

InDirs == [n \in Name |-> IF n = config THEN root ELSE packsDir]

Symmetry == Permutations(Process) \cup Permutations(Value)
                                  \cup Permutations({pack1, pack2} \cap Name)
=============================================================================
