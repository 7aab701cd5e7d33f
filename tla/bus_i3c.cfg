SPECIFICATION Spec
CONSTANTS
  c1 = c1
  c2 = c2
  d1 = d1
  d2 = d2
  Collectors <- MCCollectors
  Devices <- MCDevices
  Layouts <- SharedOrOwn
  Addressing <- BothStatic
  Registers = {r1}
  Buses <- OnlyI3c
  Instance <- InOrder
  MaxResets = 1
  None = None
INVARIANTS
  RoutedByAddress
