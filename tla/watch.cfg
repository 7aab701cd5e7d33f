SPECIFICATION FairSpec
CONSTANTS
  Collectors = {c1, c2}
  Metrics = {m1, m2}
  Configs <- MCConfigs
  MaxIterations = 2
INVARIANTS
  ReportsAddUp
PROPERTIES
  QuietAfterInterrupt
  InterruptEnds
