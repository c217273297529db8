SPECIFICATION ToolchainFairSpec
CONSTANTS
  t1 = t1
  t2 = t2
  t3 = t3
  m1 = m1
  m2 = m2
  None = None
  Threads = {t1, t2}
  MaxCalls = 2
  MaxUses = 1
  Faults = {"open", "symbols", "init"}
  Requests <- EveryFunction
  Modules = {m1, m2}
  CallFaults = {"call", "memory", "unload"}
INVARIANTS
  ToolchainTypeOK
  DoneMeansLoaded
  HandlesBalanced
  CallsFindTheirTargets
  NothingLeftOpen
  AnswersTrue
PROPERTIES
  InitializeReturns
