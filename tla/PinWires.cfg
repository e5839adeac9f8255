\* Conversions at both ends of a wire and levels, at any time.
CONSTANTS
  soc = soc
  host = host
  GpioPins <- MCGpioPins
  SpiPins <- MCSpiPins
  Connections <- MCConnections
  Convert <- MCConvert
  Drive <- MCDrive
SPECIFICATION Spec
INVARIANTS TypeOK WiresHold LevelsAgree SpiBothOrNeither NoStrayPointer RaisedHasHandler
CHECK_DEADLOCK FALSE
