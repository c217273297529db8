SPECIFICATION FairSpec
CONSTANTS
  t1 = t1
  t2 = t2
  t3 = t3
  k1 = k1
  k2 = k2
  c1 = c1
  c2 = c2
  None = None
  Threads = {t1, t2, t3}
  Requests <- TwoSources
  Archs = {80, 90}
  MaxCalls = 1
  Faults = {"device", "create", "compile", "log", "code", "destroy"}
INVARIANTS
  TypeOK
  ProgramsReleased
  OneArch
  RightFragment
  CompiledOnce
PROPERTIES
  CallsReturn
  IsOnceMap
