SPECIFICATION FairSpec
CONSTANTS
  Collectors = {c1, c2}
  Names = {n1, n2}
  c1 = c1
  c2 = c2
  n1 = n1
  n2 = n2
  Metrics <- OwnMetrics
  Exporters <- AllExporters
  Setups <- EachKind
  Requests = {q1, q2}
  MaxPolls = 1
INVARIANTS
  TypeOK
  SignalledIsFlushed
PROPERTIES
  ImplementsStoreFeed
  PublishedIsReceived
  ShutdownCompletes
