SPECIFICATION Spec
CONSTANTS
  Collectors = {c1, c2}
  Names = {n1, n2}
  c1 = c1
  c2 = c2
  n1 = n1
  n2 = n2
  Metrics <- OwnMetrics
  Exporters <- OnlyOtlp
  Setups <- Otlp
  Requests = {}
  MaxPolls = 1
INVARIANTS
  LastValuesFlushed
