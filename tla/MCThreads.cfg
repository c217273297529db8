SPECIFICATION Spec
CONSTANTS
  p1 = p1
  p2 = p2
  t1 = t1
  t2 = t2
  h1 = h1
  h2 = h2
  None = None
  Procs = {p1}
  Threads = {t1, t2}
  ProcOf <- OneProcess
  Hashes = {h1, h2}
  Requests <- TwoBlobsAndLibrary
  Limit <- LimitOne
  Chunks = 1
  MaxTick = 3
  Admin = {"clear_memory", "enable", "preload"}
  Faults = {"compile", "crash"}
SYMMETRY ThreadSymmetry
INVARIANTS
  TypeOK
  CapacityRespected
  FuturesHaveProducers
  EveryResultStored
PROPERTY
  IsSharedMemo
