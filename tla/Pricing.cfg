CONSTANTS
  Catalogs <- MCCatalogs
  Feeds <- MCFeeds
  ProviderOrder <- MCOrder
  Undated <- MCUndated
  Aliases <- MCAliases
  Models = {"m", "m-d", "x", "alias"}
  Prices = {1, 2, 3, 4, 5, 6, 7}
  MaxEdits = 3
  Unavailable = Unavailable
  NoRemote = NoRemote
  Unpriced = 0
SPECIFICATION FairSpec
INVARIANTS
  TypeOK
  CatalogAppliedOnTop
  RoutedEndpointsPriced
PROPERTIES
  FedModelsStayPriced
  SourcesReachReaders
CHECK_DEADLOCK FALSE
