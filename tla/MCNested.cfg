SPECIFICATION FairSpec
CONSTANTS
  t1 = t1
  t2 = t2
  h1 = h1
  h2 = h2
  None = None
  Threads = {t1, t2}
  Hashes = {h1, h2}
  Deps <- LibrariesOfBlobs
  Rank <- RankOfKind
  MaxCalls = 1
  Faults = {"compile"}
INVARIANTS
  WaitersHaveProducers
  NoCircularWait
PROPERTIES
  NestedCallsReturn
