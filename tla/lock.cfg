CONSTANTS
  p1 = p1
  p2 = p2
  p3 = p3
  Proc = {p1, p2, p3}
  HostOf <- TwoHosts
  Forced = {p2}
  Faults = {"error", "reuse", "damage"}
  NoLock = NoLock
  Garbage = Garbage
SPECIFICATION FairSpec
INVARIANT MutualExclusion
PROPERTIES SecureHolderStaysAlone DeadHolderYields
CHECK_DEADLOCK FALSE
