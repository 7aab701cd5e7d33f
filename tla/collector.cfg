SPECIFICATION FairSpec
CONSTANTS
  Metrics <- MCMetrics
  ErrorName <- MCErrorName
  MaxBackoff = 4
  LossNoticed <- AnyReader
  MaxPolls = 4
INVARIANTS
  TypeOK
  PollAccounting
  ReadyToPoll
  PrePollBudget
  ExitOnlyOnShutdown
  ErrorCountersExact
  AvailableAfterSuccess
PROPERTIES
  ImplementsFeed
  ShutdownCompletes
  ResumesPolling
