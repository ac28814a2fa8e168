CONSTANTS
  w1 = w1
  w2 = w2
  Workers = {w1, w2}
  Endpoints = {"e2"}
  Slugs = {"m", "nope"}
  Catalog <- MCCatalog
  Provider <- MCProvider
  ModelID <- MCModelID
  Guarantees <- MCGuarantees
  Requirements = {}
  Floor = {}
  Keys = {k1}
  NoKey = NoKey
  None = None
  MinSamples = 2
  MaxRows = 2
SPECIFICATION RecoverySpec
PROPERTIES
  RoutingEnds
  CondemnationEnds
