SPECIFICATION StatsSpec
CONSTANTS
  p1 = p1
  t1 = t1
  t2 = t2
  h1 = h1
  h2 = h2
  None = None
  Procs = {p1}
  Threads = {t1, t2}
  ProcOf <- OneProcess
  Hashes = {h1}
  Requests <- BlobAndLibrary
  Limit <- LimitOne
  Chunks = 1
  MaxTick = 2
  Admin = {}
  Faults = {"crash"}
  Observing = {"get", "clear"}
  Followed <- LibraryCounters
SYMMETRY ThreadSymmetry
INVARIANTS
  StatsAddUp
  StatsTornByMisses
