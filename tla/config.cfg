SPECIFICATION Spec
CONSTANTS
  Names = {x}
  Setups <- MCSetups
  Loaders = {"load"}
  FileMetrics <- MCFile
  Defaults <- MCDefaults
  InlineMetrics <- MCInline
  U8 = 16
  U16 = 64
  MaxEntries = 2
  None = None
INVARIANTS
  TypeOK
  AcceptedIsReadable
  AcceptedIsCreated
  StepsTakeEffect
  FullyReplaced
CHECK_DEADLOCK FALSE
