SPECIFICATION Spec
CONSTANTS
  Metrics = {m1, m2, m3}
  Layouts <- SomeLayouts
  BadSets <- SomeBad
  AddrMax = 15
  MaxGap = 1
  MaxRegs = 4
INVARIANTS
  RangesFit
  MatchesIndividual
  RequestBudget
PROPERTIES
  ImplementsSingleReads
  AllAnswered
