CONSTANTS
  r1 = r1
  r2 = r2
  k1 = k1
  p1 = p1
  p2 = p2
  None = None
  Replicas = {p1, p2}
  Requests = {r1, r2}
  Keys = {k1}
  MetaOf <- MCMetaOf
  BatchSize = 1
  Ops = {"activate", "deactivate"}
  MaxCalls = 2
  MaxErrors = 1
SPECIFICATION FairSpec
INVARIANTS
  TypeOK
  IndexBounded
  BackfillCoversPast
PROPERTIES
  CacheConverges
  JobsEnd
CHECK_DEADLOCK FALSE
