SPECIFICATION FairSpec
CONSTANTS
  c1 = c1
  c2 = c2
  d1 = d1
  d2 = d2
  Collectors <- MCCollectors
  Devices <- MCDevices
  Layouts <- SharedOrOwn
  Addressing <- MixedModes
  Registers = {r1, r2}
  Buses <- AllBuses
  Instance <- InOrder
  MaxResets = 2
  None = None
INVARIANTS
  ReadsOwnRegister
PROPERTIES
  ImplementsSerialBus
  NotStarved
  ClientsRecover
