SPECIFICATION ScrapeSpec
CONSTANTS
  Metrics <- MCMetrics
  ErrorName <- MCErrorName
  MaxBackoff = 1
  LossNoticed <- AnyReader
  MaxPolls = 3
  MaxScrapes = 1
INVARIANTS
  CyclesAccounted
  SamplesCounted
