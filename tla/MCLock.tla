-------------------------------- MODULE MCLock --------------------------------
(* Lock with three processes: two on one host, one of them forcing its way *)
(* past a lock, and a third on another host.                               *)
EXTENDS Lock

CONSTANTS p1, p2, p3

TwoHosts == [x \in Proc |-> IF x = p3 THEN "there" ELSE "here"]
=============================================================================
