SPECIFICATION FairSpec
CONSTANTS
  p1 = p1
  p2 = p2
  t1 = t1
  t2 = t2
  h1 = h1
  h2 = h2
  None = None
  Procs = {p1}
  Threads = {t1, t2}
  ProcOf <- OneProcess
  Hashes = {h1, h2}
  Requests <- TwoLibrariesAndBlob
  Limit <- LimitMixed
  Chunks = 1
  MaxTick = 2
  Admin = {"clear_disk"}
  Faults = {"compile", "io", "crash"}
INVARIANTS
  SingleFlight
PROPERTIES
  CallsReturn
  SlowCompileBlocksNobody
