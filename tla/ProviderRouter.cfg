CONSTANTS
  w1 = w1
  w2 = w2
  Workers = {w1, w2}
  Endpoints = {"e1", "e2"}
  Slugs = {"m", "nope"}
  Catalog <- MCCatalog
  Provider <- MCProvider
  ModelID <- MCModelID
  Guarantees <- MCGuarantees
  Requirements = {"zdr"}
  Floor = {}
  Keys = {k1, k2}
  NoKey = NoKey
  None = None
  MinSamples = 1
  MaxRows = 1
SPECIFICATION Spec
SYMMETRY Symmetry
INVARIANTS
  TypeOK
  PolicyHolds
