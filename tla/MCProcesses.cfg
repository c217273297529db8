SPECIFICATION Spec
CONSTANTS
  p1 = p1
  p2 = p2
  t1 = t1
  t2 = t2
  h1 = h1
  h2 = h2
  None = None
  Procs = {p1, p2}
  Threads = {t1, t2}
  ProcOf <- TwoProcesses
  Hashes = {h1}
  Requests <- BlobAndLibrary
  Limit <- LimitOne
  Chunks = 2
  MaxTick = 2
  Admin = {"clear_disk", "preload"}
  Faults = {"crash", "io"}
INVARIANTS
  ContentIntact
