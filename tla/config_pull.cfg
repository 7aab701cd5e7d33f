SPECIFICATION Spec
CONSTANTS
  Names = {x}
  Setups <- OneI2c
  Loaders = {"load_for_pull"}
  FileMetrics <- MCFile
  Defaults <- MCDefaults
  InlineMetrics <- MCInline
  U8 = 16
  U16 = 64
  MaxEntries = 1
  None = None
INVARIANTS
  AddressAsConfigured
CHECK_DEADLOCK FALSE
