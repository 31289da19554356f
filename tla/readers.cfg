CONSTANTS
  a = a
  b = b
  Data = {a, b}
  Nonce = {n1}
  SnapId = {s1}
  Sources <- Directories
  PackSize = 2
  RepackNum = 1
  RepackDen = 2
  MaxPacks = 2
  Faults = {"stop", "sweep", "rebuild", "staging"}
SPECIFICATION ReadersSpec
CONSTRAINTS PacksBound Undisturbed
INVARIANTS ReadersTypeOK RestoreUndisturbed NoFalseAlarm CleanReportIsTrue
