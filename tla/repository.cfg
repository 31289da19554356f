CONSTANTS
  a = a
  b = b
  Data = {a, b}
  Nonce = {n1, n2}
  SnapId = {s1, s2}
  Sources <- Directories
  PackSize = 2
  RepackNum = 1
  RepackDen = 2
  MaxPacks = 3
  Faults = {"stop", "rebuild"}
SPECIFICATION HistoryFairSpec
CONSTRAINT PacksBound
INVARIANTS CleanInv SnapshotsFindable SnapshotsRestorable
PROPERTIES SnapshotAfterChunks PruneReclaims VaultSpec OperationEnds
