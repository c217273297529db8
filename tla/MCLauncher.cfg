SPECIFICATION FairSpec
CONSTANTS
  t1 = t1
  t2 = t2
  t3 = t3
  l1 = l1
  l2 = l2
  l3 = l3
  None = None
  Threads = {t1, t2, t3}
  Launchers = {l1, l2, l3}
  Plans <- TwoPlans
  MaxCalls = 1
  Faults = {"link", "load", "kernel"}
INVARIANTS
  TypeOK
  LibraryLifetime
  RightLauncher
PROPERTIES
  IsOnceMap
  CallsReturn
