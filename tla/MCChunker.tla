------------------------------ MODULE MCChunker ------------------------------
(* Chunker with two byte values and a hash of two bits.                  *)
EXTENDS Chunker

SmallGear == [x \in Byte |-> IF x = 0 THEN 0 ELSE 3]
=============================================================================
