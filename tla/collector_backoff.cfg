SPECIFICATION FairSpec
CONSTANTS
  Metrics <- MCMetrics
  ErrorName <- MCErrorName
  MaxBackoff = 4
  LossNoticed <- AnyReader
  MaxPolls = 3
PROPERTIES
  BackoffReachesMax
