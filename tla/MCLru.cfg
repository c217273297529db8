SPECIFICATION LruSpec
CONSTANTS
  p1 = p1
  t1 = t1
  h1 = h1
  h2 = h2
  h3 = h3
  None = None
  Procs = {p1}
  Threads = {t1}
  ProcOf <- OneThread
  Hashes = {h1, h2, h3}
  Requests <- ThreeBlobs
  Limit <- LimitThree
  Chunks = 1
  MaxTick = 6
  Admin = {"clear_memory", "enable"}
  Faults = {"compile"}
PROPERTIES
  EvictsLeastRecentlyUsed
