\* One irq on each unit, levels at any time after the handshake.
CONSTANTS
  soc = soc
  host = host
  GpioPins <- MCGpioPins
  SpiPins <- MCSpiPins
  Connections <- MCConnections
  Convert <- MCConvert
  Drive <- MCDrive
  SigMax = 2
  Crowded = TRUE
  CreditMax = 2
SPECIFICATION FairSpec
INVARIANTS TypeOK UnitsKeptApart HandlersUpToDate
PROPERTIES LevelReachesHandler OneRunPerLevel
