CONSTANTS
  a = a
  b = b
  Data = {a}
  Nonce = {n1, n2}
  SnapId = {s1, s2}
  Sources <- MaybeEmpty
  PackSize = 2
  RepackNum = 1
  RepackDen = 2
  MaxPacks = 2
  Faults = {"stop", "sweep", "rebuild", "reuse", "staging"}
SPECIFICATION Spec
SYMMETRY Symmetry
CONSTRAINT PacksBound
INVARIANT SafeInv
PROPERTIES NoReferencedChunkLost DanglingOnlyFromSweep RebuildHeals
