----------------------------- MODULE MCPackFile -----------------------------
(* PackFile with three chunks: an incompressible one and two that compress *)
(* to different sizes.                                                     *)
EXTENDS PackFile, TLC

CONSTANTS x, y, z

Sizes == (x :> 1) @@ (y :> 3) @@ (z :> 3)
Packed == (x :> 2) @@ (y :> 1) @@ (z :> 2)
=============================================================================
