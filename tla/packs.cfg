CONSTANTS
  x = x
  y = y
  z = z
  Chunk = {x, y, z}
  Plain <- Sizes
  Zstd <- Packed
  PackSize = 8
  MaxSeals = 3
  MaxDamage = 1
  Faults = {"write", "damage"}
SPECIFICATION Spec
INVARIANTS PackTypeOK IndexLocates ScanFaithful
PROPERTY RebuildRecovers
