CONSTANTS
  w1 = w1
  w2 = w2
  Workers = {w1}
  Endpoints = {"e1", "e2"}
  Slugs = {"m", "nope"}
  Catalog <- MCCatalog
  Provider <- MCProvider
  ModelID <- MCModelID
  Guarantees <- MCGuarantees
  Requirements = {"zdr", "deny"}
  Floor = {"deny"}
  Keys = {k1}
  NoKey = NoKey
  None = None
  MinSamples = 2
  MaxRows = 2
SPECIFICATION Spec
PROPERTY
  FailingIsCondemned
