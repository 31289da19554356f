CONSTANTS
  a = a
  b = b
  Data = {a, b}
  Nonce = {n1}
  SnapId = {s1, s2}
  Sources <- Directories
  PackSize = 2
  RepackNum = 1
  RepackDen = 2
  MaxPacks = 3
  Faults = {}
SPECIFICATION ReadersSpec
SYMMETRY Symmetry
CONSTRAINT PacksBound
INVARIANT LocklessReadsConsistent
