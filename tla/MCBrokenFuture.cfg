SPECIFICATION Spec
CONSTANTS
  p1 = p1
  p2 = p2
  t1 = t1
  t2 = t2
  h1 = h1
  h2 = h2
  None = None
  Procs = {p1}
  Threads = {t1, t2}
  ProcOf <- OneProcess
  Hashes = {h1}
  Requests <- OneBlob
  Limit <- LimitOne
  Chunks = 1
  MaxTick = 3
  Admin = {}
  Faults = {"compile"}
INVARIANTS
  ReturnedFuturesHold
