SPECIFICATION AnsweringSpec
CONSTANTS
  QueueCap = 3
  MaxMetrics = 4
  MaxBackoff = 4
INVARIANTS
  TypeOK
  OnlineHasWill
PROPERTIES
  ImplementsPresence
  CancelCompletes
  OfflineAtLast
  Reannounced
