SPECIFICATION PipeSpec
CONSTANTS
  Items <- MCItems
  Dir <- MCDir
  MaxRequests = 2
  Hosts <- MCHosts
  Authority = "tunnel"
  Scoped <- MCScoped
CHECK_DEADLOCK FALSE
INVARIANTS
  PipeTypeOK
  ReaderIsAlone
  CapturesAreExchanges
PROPERTIES
  TunnelLetsGo
