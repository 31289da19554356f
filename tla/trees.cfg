CONSTANTS
  Sources <- MCSources
  Excluded <- MCExcluded
  Existing <- MCExisting
  Requests <- MCRequests
  MaxScanFailures = 2
  MaxRestoreFailures = 1
  MaxLost = 1
SPECIFICATION Spec
INVARIANTS
  TreesTypeOK
  ScanBottomUp
  ScanHonest
  RestoreReports
  DamageContained
  
  ExistingKept
  WalkListsTree
  MarkExact
  CheckFindsDamage
