CONSTANTS
  r1 = r1
  r2 = r2
  k1 = k1
  v1 = v1
  v2 = v2
  Requests = {r1, r2}
  Keys = {k1}
  Values = {v1, v2}
  NoReq = NoReq
  NoKey = NoKey
  Cap = 1
  MetaOf <- MCMetaOf
  ValueOf <- MCValueOf
SPECIFICATION FairSpec
PROPERTY
  CloseDrains
