CONSTANTS
  Requests <- MCRequests
  Deprecated <- MCDeprecated
  Catalog <- MCCatalog
  Configured <- MCConfigured
  Reasoning = {"effort", "thinking"}
  RouterSet = {TRUE, FALSE}
  None = None
SPECIFICATION Spec
INVARIANTS
  TypeOK
  AnswersLoggedOnce
  KeysStayHome
  RowTellsWire
  OneVersionSegment
CHECK_DEADLOCK FALSE
